---- MODULE Spec2Model ----
(***************************************************************************)
(* State-machine model of the Flappy Physics game engine                   *)
(* (src/game/engine.ts, bird.ts, physics.ts, pipes.ts, chaos.ts and the    *)
(* useGame hook).                                                          *)
(*                                                                         *)
(* Numbers.  The program computes with IEEE doubles.  The model keeps every*)
(* length, position and velocity as an integer number of hundredths        *)
(* (Fx(n) = n * 100), which is exact for the parabolic and linear motion   *)
(* curves on the values the configuration sliders can produce.  The        *)
(* exponential and sine curves and the swirl-field force are rounded down  *)
(* to the hundredth.  Math.random() is a draw r from RandomDraws, read as  *)
(* the number r / 100 in [0, 1).  The black-hole progress is kept as the   *)
(* number of 1/BLACK_HOLE_DURATION increments added so far.                *)
(***************************************************************************)
EXTENDS Integers, Sequences, FiniteSets, TLC

VARIABLES
    gameState,     \* useGame: the GameState held by useState
    frameCount,    \* engine.ts: module-level frame counter
    storage,       \* localStorage['flappy-physics-best-score'], absent or a number
    bestAtStart    \* history: bestScore when the current game was started

vars == <<gameState, frameCount, storage, bestAtStart>>

-----------------------------------------------------------------------------
(* Bounds of the model *)

MaxBest == 1         \* games are followed when they start with a best score in 0..MaxBest
MaxFrames == 260     \* the frame loop is followed up to this frameCount per game
InputPeriod == 240   \* commands reach a running frame loop only every InputPeriod frames
InputPhase == 60     \* ... the first of them InputPhase frames into the game
LateStart == 700     \* the late game is followed from this frameCount ...
MaxLateFrames == 870 \* ... up to this one

\* Outcomes of Math.random(), in hundredths.
RandomDraws == {20, 90}

\* The five draws of one spawnParticle call (side, y, vx, vy, radius)
ParticleDraws == {<<20, 20, 20, 20, 20>>, <<90, 90, 90, 90, 90>>}

\* Fixed-point representation of the number n (hundredths).
Fx(n) == n * 100

Max(a, b) == IF a >= b THEN a ELSE b
Min(a, b) == IF a <= b THEN a ELSE b

\* The number NaN, which parseInt returns for a string without leading
\* digits.  Scores are never negative, and -1 stands for it.
NaN == -1

\* a > b and Math.max(a, b) of JavaScript for scores: every comparison
\* with NaN is false, and the maximum of NaN and a number is NaN
Gt(a, b) == a # NaN /\ b # NaN /\ a > b
MathMax(a, b) == IF a = NaN \/ b = NaN THEN NaN ELSE Max(a, b)

-----------------------------------------------------------------------------
(* config/constants.ts *)

SPEED_DEFAULT == 4
JUMP_HEIGHT_DEFAULT == 7
GRAVITY_DEFAULT == 40            \* 0.4 in hundredths
PIPE_GAP_DEFAULT == 160
PIPE_GAP_MIN == 100
PIPE_GAP_MAX == 250
PIPE_SPACING_DEFAULT == 280
PIPE_SPACING_MIN == 150
PIPE_WIDTH == 60
CANVAS_width == 480
CANVAS_height == 640
BIRD_x == 80
BIRD_startY == 300
BIRD_width == 34
BIRD_height == 28

-----------------------------------------------------------------------------
(* game/physics.ts *)

JUMP_DURATION_linear == 20
JUMP_DURATION_sine == 25

\* max(0, cos(t * PI / 25)) * 1000 for t = 0 .. 24
CosTable ==
    <<1000, 992, 969, 930, 876, 809, 729, 637, 536, 426, 309, 187, 63,
      0, 0, 0, 0, 0, 0, 0, 0, 0, 0, 0, 0>>

\* velocity, gravity in hundredths; jumpHeight in hundredths
applyGravity(velocity, gravity, physicsType, jumpTime, jumpHeight) ==
    CASE physicsType = "linear" ->
            IF velocity < 0 /\ jumpTime < JUMP_DURATION_linear
            THEN velocity
            ELSE velocity + (gravity * 12) \div 10
      [] physicsType = "exponential" ->
            IF velocity < 0
            THEN (velocity * 88) \div 100 + gravity \div 2
            ELSE velocity + gravity
      [] physicsType = "sine" ->
            IF jumpTime < JUMP_DURATION_sine /\ velocity < 0
            THEN LET targetVelocity ==
                         -((jumpHeight * CosTable[jumpTime + 1] * 7) \div 10000)
                 IN  (velocity * 8) \div 10 + (targetVelocity * 2) \div 10
                       + (gravity * 3) \div 10
            ELSE velocity + gravity
      [] OTHER -> velocity + gravity

applyJump(jumpHeight, physicsType) ==
    CASE physicsType = "linear" -> -((jumpHeight * 5) \div 10)
      [] physicsType = "exponential" -> -((jumpHeight * 18) \div 10)
      [] physicsType = "sine" -> -((jumpHeight * 9) \div 10)
      [] OTHER -> -jumpHeight

updatePosition(y, velocity) == y + velocity

-----------------------------------------------------------------------------
(* game/bird.ts *)

createBird ==
    [x |-> Fx(BIRD_x), y |-> Fx(BIRD_startY), velocity |-> 0,
     width |-> Fx(BIRD_width), height |-> Fx(BIRD_height), jumpTime |-> 0]

updateBird(bird, gravity, physicsType, jumpHeight) ==
    LET newVelocity ==
            applyGravity(bird.velocity, gravity, physicsType, bird.jumpTime, jumpHeight)
        newY == updatePosition(bird.y, newVelocity)
    IN  [bird EXCEPT !.velocity = newVelocity, !.y = newY,
                     !.jumpTime = bird.jumpTime + 1]

\* mutant: the impulse leaves the jump timer alone
jumpBirdKeepsTime(bird, jumpHeight, physicsType) ==
    [bird EXCEPT !.velocity = applyJump(jumpHeight, physicsType)]

jumpBird(bird, jumpHeight, physicsType) ==
    [bird EXCEPT !.velocity = applyJump(jumpHeight, physicsType), !.jumpTime = 0]

BIRD_GROUND_HEIGHT == 80

\* mutant: a bird whose bottom edge is on the ground line is out of bounds
isBirdOutOfBoundsOnTouch(bird) ==
    LET groundY == Fx(CANVAS_height - BIRD_GROUND_HEIGHT)
    IN  bird.y + bird.height >= groundY \/ bird.y < 0

isBirdOutOfBounds(bird) ==
    LET groundY == Fx(CANVAS_height - BIRD_GROUND_HEIGHT)
    IN  bird.y + bird.height > groundY \/ bird.y < 0

-----------------------------------------------------------------------------
(* game/pipes.ts *)

MIN_PIPE_HEIGHT == 80
GROUND_HEIGHT == 80

\* Optional fields of Pipe are always present in the model: ghostSet says
\* whether isGhost is defined; an undefined boolean is FALSE (it is only ever
\* tested for truthiness) and the electric timings carry the defaults that
\* updateElectricPipe substitutes for undefined.
\* r: the Math.random() draw
createPipe(x, gap, r) ==
    LET availableHeight == Fx(CANVAS_height - GROUND_HEIGHT) - gap - Fx(MIN_PIPE_HEIGHT * 2)
        topHeight == Fx(MIN_PIPE_HEIGHT) + (r * availableHeight) \div 100
    IN  [x |-> x, topHeight |-> topHeight, bottomY |-> topHeight + gap,
         width |-> Fx(PIPE_WIDTH), passed |-> FALSE,
         ghostSet |-> FALSE, isGhost |-> FALSE, isRevealed |-> FALSE,
         isElectric |-> FALSE, electricActive |-> FALSE, electricCycleTime |-> 0,
         electricOnDuration |-> 50, electricOffDuration |-> 120]

SeqMap(F(_), s) == [i \in 1..Len(s) |-> F(s[i])]

\* mutant: a pipe is removed once its trailing edge is at the bird's column
updatePipesCullsAtBird(pipes, speed) ==
    LET moved(pipe) == [pipe EXCEPT !.x = pipe.x - speed]
        onScreen(pipe) == pipe.x + pipe.width > Fx(BIRD_x)
    IN  SelectSeq(SeqMap(moved, pipes), onScreen)

updatePipesKeepsEdge(pipes, speed) ==
    LET moved(pipe) == [pipe EXCEPT !.x = pipe.x - speed]
        onScreen(pipe) == pipe.x + pipe.width >= -Fx(50)
    IN  SelectSeq(SeqMap(moved, pipes), onScreen)

updatePipes(pipes, speed) ==
    LET moved(pipe) == [pipe EXCEPT !.x = pipe.x - speed]
        onScreen(pipe) == pipe.x + pipe.width > -Fx(50)
    IN  SelectSeq(SeqMap(moved, pipes), onScreen)

\* mutant: a pipe is spawned as soon as the last one is at the spawn line
shouldSpawnPipeOnLine(pipes, pipeSpacing) ==
    IF Len(pipes) = 0 THEN TRUE
    ELSE pipes[Len(pipes)].x <= Fx(CANVAS_width) - pipeSpacing

shouldSpawnPipe(pipes, pipeSpacing) ==
    IF Len(pipes) = 0 THEN TRUE
    ELSE pipes[Len(pipes)].x < Fx(CANVAS_width) - pipeSpacing

checkPipeCollision(bird, pipe) ==
    LET birdLeft == bird.x
        birdRight == bird.x + bird.width
        birdTop == bird.y
        birdBottom == bird.y + bird.height
        pipeLeft == pipe.x
        pipeRight == pipe.x + pipe.width
    IN  /\ birdRight > pipeLeft /\ birdLeft < pipeRight
        /\ (birdTop < pipe.topHeight \/ birdBottom > pipe.bottomY)

checkAnyCollision(bird, pipes) ==
    \E i \in 1..Len(pipes) : checkPipeCollision(bird, pipes[i])

\* mutant: the passed flag is not consulted, a pipe is counted in every frame
justPassedAgain(bird, pipe) == pipe.x + pipe.width < bird.x

\* the condition under which countPassedPipes marks and counts a pipe
justPassed(bird, pipe) == ~pipe.passed /\ pipe.x + pipe.width < bird.x

countPassedPipes(bird, pipes) ==
    LET mark(pipe) == IF justPassed(bird, pipe)
                      THEN [pipe EXCEPT !.passed = TRUE] ELSE pipe
    IN  [pipes |-> SeqMap(mark, pipes),
         scored |-> Cardinality({i \in 1..Len(pipes) : justPassed(bird, pipes[i])})]

-----------------------------------------------------------------------------
(* game/chaos.ts *)
(* The id strings of hazard entities (generateId) are React keys only; no  *)
(* engine code reads them, and they are left out of the entity records.    *)

SPAWN_INTERVAL == 400
SPAWN_CHANCE == 30               \* 0.3 in hundredths

\* Number of additions of 1/duration to 0 after which the IEEE double sum
\* first reaches 1: 240 additions of 1/240 and 30 additions of 1/30 stay
\* just below 1, 150 additions of 1/150 reach it.
StepsToOne(duration) ==
    CASE duration = 240 -> 241
      [] duration = 30 -> 31
      [] OTHER -> duration

createInitialChaos ==
    [enabled |-> FALSE, electricPillars |-> <<>>, gammaRays |-> <<>>,
     gravityFlips |-> <<>>, vortexes |-> <<>>, particles |-> <<>>,
     schrodingerMode |-> FALSE, gravityMultiplier |-> 1, lastSpawnTime |-> 0]

makeElectricPipe(pipe) ==
    [pipe EXCEPT !.isElectric = TRUE, !.electricActive = FALSE,
                 !.electricCycleTime = 0, !.electricOnDuration = 50,
                 !.electricOffDuration = 120]

\* mutant: the cycle does not repeat
updateElectricPipeOnce(pipe) ==
    IF ~pipe.isElectric THEN pipe
    ELSE LET cycleTime == pipe.electricCycleTime + 1
         IN  [pipe EXCEPT !.electricCycleTime = cycleTime,
                          !.electricActive = (cycleTime < pipe.electricOnDuration)]

updateElectricPipe(pipe) ==
    IF ~pipe.isElectric THEN pipe
    ELSE LET cycleTime == pipe.electricCycleTime + 1
             onDuration == pipe.electricOnDuration
             offDuration == pipe.electricOffDuration
             cycleDuration == onDuration + offDuration
             cyclePosition == cycleTime % cycleDuration
         IN  [pipe EXCEPT !.electricCycleTime = cycleTime,
                          !.electricActive = (cyclePosition < onDuration)]

\* progress of a beam is the number of 1/time increments since its state began
spawnGammaRay(rY) ==
    [y |-> Fx(100) + (rY * Fx(CANVAS_height - 280)) \div 100,
     width |-> Fx(CANVAS_width), height |-> Fx(15),
     warningTime |-> 240, activeTime |-> 30, state |-> "warning", progress |-> 0]

\* strength 0.15 in hundredths; rotation in tenths of a radian
spawnVortex(rY) ==
    [x |-> Fx(CANVAS_width + 50),
     y |-> Fx(150) + (rY * Fx(CANVAS_height - 380)) \div 100,
     radius |-> Fx(60), strength |-> 15, rotation |-> 0]

\* the colour of a particle is drawn but never read by the engine
spawnParticle(rSide, rY, rVx, rVy, rRadius) ==
    LET fromLeft == rSide > 50
    IN  [x |-> IF fromLeft THEN -Fx(20) ELSE Fx(CANVAS_width + 20),
         y |-> Fx(100) + (rY * Fx(CANVAS_height - 280)) \div 100,
         vx |-> (IF fromLeft THEN 1 ELSE -1) * (Fx(4) + rVx * 3),
         vy |-> (rVy - 50) * 2,
         radius |-> Fx(4) + rRadius * 2]

\* a beam after one tick: <<ray'>>, or <<>> when a faded beam is removed
updateGammaRay(ray) ==
    LET time == IF ray.state = "warning" THEN ray.warningTime ELSE ray.activeTime
        newProgress == ray.progress + 1
    IN  IF newProgress >= StepsToOne(time)
        THEN CASE ray.state = "warning" -> <<[ray EXCEPT !.state = "active", !.progress = 0]>>
               [] ray.state = "active" -> <<[ray EXCEPT !.state = "fading", !.progress = 0]>>
               [] OTHER -> <<>>
        ELSE <<[ray EXCEPT !.progress = newProgress]>>

RECURSIVE updateGammaRays(_)
updateGammaRays(rays) ==
    IF rays = <<>> THEN <<>>
    ELSE updateGammaRay(Head(rays)) \o updateGammaRays(Tail(rays))

\* mutant: the spawner picks among all kinds, whatever the toggles
enabledHazardKindsAll(hazards) == <<"gamma", "vortex", "particles">>

\* the kinds the shared spawner may pick, in the order the code pushes them
enabledHazardKinds(hazards) ==
    (IF hazards.gammaRays THEN <<"gamma">> ELSE <<>>)
      \o (IF hazards.vortexes THEN <<"vortex">> ELSE <<>>)
      \o (IF hazards.particles THEN <<"particles">> ELSE <<>>)

\* the entity updates of updateChaos (everything before the spawn)
advanceChaos(chaos, speed) ==
    LET movedFlip(flip) ==
            [flip EXCEPT !.x = flip.x - speed,
                         !.progress = IF flip.isActive THEN flip.progress + 1
                                      ELSE flip.progress,
                         !.isActive = flip.isActive
                                        /\ flip.progress < StepsToOne(flip.duration)]
        flipVisible(f) == f.x > -f.width
        newFlips == SelectSeq(SeqMap(movedFlip, chaos.gravityFlips), flipVisible)
        movedVortex(v) == [v EXCEPT !.x = v.x - speed \div 2, !.rotation = v.rotation + 1]
        vortexVisible(v) == v.x > -(v.radius * 2)
        movedParticle(p) == [p EXCEPT !.x = p.x + p.vx, !.y = p.y + p.vy]
        particleVisible(p) ==
            /\ p.x > -Fx(50) /\ p.x < Fx(CANVAS_width + 50)
            /\ p.y > -Fx(50) /\ p.y < Fx(CANVAS_height + 50)
    IN  [chaos EXCEPT
            !.electricPillars = <<>>,
            !.gammaRays = updateGammaRays(chaos.gammaRays),
            !.gravityFlips = newFlips,
            !.gravityMultiplier =
                IF \E i \in 1..Len(newFlips) : newFlips[i].isActive THEN -1 ELSE 1,
            !.vortexes = SelectSeq(SeqMap(movedVortex, chaos.vortexes), vortexVisible),
            !.particles = SelectSeq(SeqMap(movedParticle, chaos.particles), particleVisible)]

\* mutant: a beam is spawned whether or not one exists
spawnHazardUncapped(newChaos, hazardType, frame) ==
    LET spawned ==
          CASE hazardType = "gamma" ->
                 {[newChaos EXCEPT !.gammaRays = Append(@, spawnGammaRay(rY))] :
                     rY \in RandomDraws}
            [] hazardType = "vortex" ->
                 {[newChaos EXCEPT !.vortexes = Append(@, spawnVortex(rY))] :
                     rY \in RandomDraws}
            [] OTHER ->
                 {[newChaos EXCEPT !.particles =
                       @ \o <<spawnParticle(d1[1], d1[2], d1[3], d1[4], d1[5]),
                              spawnParticle(d2[1], d2[2], d2[3], d2[4], d2[5])>>] :
                     d1 \in ParticleDraws, d2 \in ParticleDraws}
    IN  {[c EXCEPT !.lastSpawnTime = frame] : c \in spawned}

\* mutant: the spawner also places a gravity-inversion zone with a swirl field
spawnHazardWithZone(newChaos, hazardType, frame) ==
    LET zone == [x |-> Fx(CANVAS_width + 50), width |-> Fx(100), isActive |-> FALSE,
                 progress |-> 0, duration |-> 180]
        spawned ==
          CASE hazardType = "gamma" ->
                 IF Len(newChaos.gammaRays) < 1
                 THEN {[newChaos EXCEPT !.gammaRays = Append(@, spawnGammaRay(rY))] :
                          rY \in RandomDraws}
                 ELSE {newChaos}
            [] hazardType = "vortex" ->
                 {[newChaos EXCEPT !.vortexes = Append(@, spawnVortex(rY)),
                                   !.gravityFlips = Append(@, zone)] :
                     rY \in RandomDraws}
            [] OTHER ->
                 {[newChaos EXCEPT !.particles =
                       @ \o <<spawnParticle(d1[1], d1[2], d1[3], d1[4], d1[5]),
                              spawnParticle(d2[1], d2[2], d2[3], d2[4], d2[5])>>] :
                     d1 \in ParticleDraws, d2 \in ParticleDraws}
    IN  {[c EXCEPT !.lastSpawnTime = frame] : c \in spawned}

\* the outcomes of the spawn step for hazard kind hazardType
spawnHazard(newChaos, hazardType, frame) ==
    LET spawned ==
          CASE hazardType = "gamma" ->
                 IF Len(newChaos.gammaRays) < 1
                 THEN {[newChaos EXCEPT !.gammaRays = Append(@, spawnGammaRay(rY))] :
                          rY \in RandomDraws}
                 ELSE {newChaos}
            [] hazardType = "vortex" ->
                 {[newChaos EXCEPT !.vortexes = Append(@, spawnVortex(rY))] :
                     rY \in RandomDraws}
            [] OTHER ->
                 {[newChaos EXCEPT !.particles =
                       @ \o <<spawnParticle(d1[1], d1[2], d1[3], d1[4], d1[5]),
                              spawnParticle(d2[1], d2[2], d2[3], d2[4], d2[5])>>] :
                     d1 \in ParticleDraws, d2 \in ParticleDraws}
    IN  {[c EXCEPT !.lastSpawnTime = frame] : c \in spawned}

\* mutant: the spawner does not wait for the spawn interval
updateChaosNoInterval(chaos, speed, frame, hazards) ==
    IF ~chaos.enabled THEN {chaos}
    ELSE LET newChaos == advanceChaos(chaos, speed)
             kinds == enabledHazardKinds(hazards)
             synced(c) == [c EXCEPT !.schrodingerMode = hazards.schrodingerPipes]
             mayspawn == Len(kinds) > 0
             results ==
                 IF ~mayspawn THEN {newChaos}
                 ELSE UNION {IF rSpawn < SPAWN_CHANCE
                             THEN UNION {spawnHazard(newChaos,
                                             kinds[(rKind * Len(kinds)) \div 100 + 1], frame) :
                                            rKind \in RandomDraws}
                             ELSE {newChaos} : rSpawn \in RandomDraws}
         IN  {synced(c) : c \in results}

\* The set of results of updateChaos, one per outcome of the random draws.
updateChaos(chaos, speed, frame, hazards) ==
    IF ~chaos.enabled THEN {chaos}
    ELSE LET newChaos == advanceChaos(chaos, speed)
             kinds == enabledHazardKinds(hazards)
             synced(c) == [c EXCEPT !.schrodingerMode = hazards.schrodingerPipes]
             mayspawn == Len(kinds) > 0 /\ frame - chaos.lastSpawnTime > SPAWN_INTERVAL
             results ==
                 IF ~mayspawn THEN {newChaos}
                 ELSE UNION {IF rSpawn < SPAWN_CHANCE
                             THEN UNION {spawnHazard(newChaos,
                                             kinds[(rKind * Len(kinds)) \div 100 + 1], frame) :
                                            rKind \in RandomDraws}
                             ELSE {newChaos} : rSpawn \in RandomDraws}
         IN  {synced(c) : c \in results}

\* mutant: the gap of an electric pipe is lethal whether it is on or off
checkElectricPipeCollisionAlways(bird, pipes) ==
    \E i \in 1..Len(pipes) :
        LET pipe == pipes[i]
            birdRight == bird.x + bird.width
            birdLeft == bird.x
            birdTop == bird.y
            birdBottom == bird.y + bird.height
        IN  /\ pipe.isElectric
            /\ birdRight > pipe.x /\ birdLeft < pipe.x + pipe.width
            /\ birdTop > pipe.topHeight /\ birdBottom < pipe.bottomY

checkElectricPipeCollision(bird, pipes) ==
    \E i \in 1..Len(pipes) :
        LET pipe == pipes[i]
            birdRight == bird.x + bird.width
            birdLeft == bird.x
            birdTop == bird.y
            birdBottom == bird.y + bird.height
        IN  /\ pipe.isElectric /\ pipe.electricActive
            /\ birdRight > pipe.x /\ birdLeft < pipe.x + pipe.width
            /\ birdTop > pipe.topHeight /\ birdBottom < pipe.bottomY

Abs(n) == IF n < 0 THEN -n ELSE n

\* dx*dx + dy*dy < r*r, without squaring coordinates that are far apart
WithinDistance(dx, dy, r) ==
    Abs(dx) < r /\ Abs(dy) < r /\ dx * dx + dy * dy < r * r

\* mutant: a beam is lethal in every state
checkChaosCollisionAnyBeam(bird, chaos) ==
    IF ~chaos.enabled THEN FALSE
    ELSE \/ \E i \in 1..Len(chaos.gammaRays) :
               LET ray == chaos.gammaRays[i]
                   birdTop == bird.y
                   birdBottom == bird.y + bird.height
               IN  birdBottom > ray.y /\ birdTop < ray.y + ray.height
         \/ \E i \in 1..Len(chaos.particles) :
               LET particle == chaos.particles[i]
                   dx == bird.x + bird.width \div 2 - particle.x
                   dy == bird.y + bird.height \div 2 - particle.y
               IN  WithinDistance(dx, dy,
                       particle.radius + Min(bird.width, bird.height) \div 2)

checkChaosCollision(bird, chaos) ==
    IF ~chaos.enabled THEN FALSE
    ELSE \/ \E i \in 1..Len(chaos.gammaRays) :
               LET ray == chaos.gammaRays[i]
                   birdTop == bird.y
                   birdBottom == bird.y + bird.height
               IN  ray.state = "active" /\ birdBottom > ray.y /\ birdTop < ray.y + ray.height
         \/ \E i \in 1..Len(chaos.particles) :
               LET particle == chaos.particles[i]
                   dx == bird.x + bird.width \div 2 - particle.x
                   dy == bird.y + bird.height \div 2 - particle.y
               IN  WithinDistance(dx, dy,
                       particle.radius + Min(bird.width, bird.height) \div 2)

\* largest n with n * n <= k
\* (found bit by bit from step upwards of n; k < 8192 * 8192)
RECURSIVE IsqrtFrom(_, _, _)
IsqrtFrom(k, n, step) ==
    IF step = 0 THEN n
    ELSE IF (n + step) * (n + step) <= k THEN IsqrtFrom(k, n + step, step \div 2)
    ELSE IsqrtFrom(k, n, step \div 2)
Isqrt(k) == IsqrtFrom(k, 0, 4096)

\* force of one swirl field on the bird, <<vx, vy>> in hundredths
vortexPull(bird, vortex) ==
    LET dx == vortex.x - (bird.x + bird.width \div 2)
        dy == vortex.y - (bird.y + bird.height \div 2)
    IN  IF WithinDistance(dx, dy, vortex.radius) /\ dx * dx + dy * dy > Fx(10) * Fx(10)
        THEN LET distance == Isqrt(dx * dx + dy * dy)
                 force == (vortex.strength * (vortex.radius - distance)) \div vortex.radius
             IN  <<(dx * force) \div distance - (dy * force) \div (2 * distance),
                   (dy * force) \div distance + (dx * force) \div (2 * distance)>>
        ELSE <<0, 0>>

RECURSIVE sumPulls(_, _)
sumPulls(bird, vortexes) ==
    IF vortexes = <<>> THEN <<0, 0>>
    ELSE LET p == vortexPull(bird, Head(vortexes))
             rest == sumPulls(bird, Tail(vortexes))
         IN  <<p[1] + rest[1], p[2] + rest[2]>>

applyVortexForce(bird, chaos) ==
    IF ~chaos.enabled THEN [vx |-> 0, vy |-> 0]
    ELSE LET t == sumPulls(bird, chaos.vortexes)
         IN  [vx |-> t[1], vy |-> t[2]]

checkGravityFlipTrigger(bird, chaos) ==
    IF ~chaos.enabled THEN chaos
    ELSE LET trigger(flip) ==
                 IF ~flip.isActive /\ bird.x > flip.x /\ bird.x < flip.x + flip.width
                 THEN [flip EXCEPT !.isActive = TRUE, !.progress = 0]
                 ELSE flip
         IN  [chaos EXCEPT !.gravityFlips = SeqMap(trigger, chaos.gravityFlips)]

applySchrodingerEffect(pipe, chaos, r) ==
    IF ~chaos.enabled \/ ~chaos.schrodingerMode THEN pipe
    ELSE IF ~pipe.ghostSet
         THEN [pipe EXCEPT !.ghostSet = TRUE, !.isGhost = (r > 50), !.isRevealed = FALSE]
         ELSE pipe

\* mutant: revealing a pipe collapses its ghost bit
revealSchrodingerPipeCollapses(pipe, bird) ==
    IF ~pipe.ghostSet \/ pipe.isRevealed THEN pipe
    ELSE IF bird.x + bird.width > pipe.x - Fx(50)
         THEN [pipe EXCEPT !.isRevealed = TRUE, !.isGhost = FALSE]
         ELSE pipe

\* mutant: a pipe is revealed only once the bird's left edge is past its x
revealSchrodingerPipeAtBird(pipe, bird) ==
    IF ~pipe.ghostSet \/ pipe.isRevealed THEN pipe
    ELSE IF bird.x > pipe.x
         THEN [pipe EXCEPT !.isRevealed = TRUE]
         ELSE pipe

revealSchrodingerPipe(pipe, bird) ==
    IF ~pipe.ghostSet \/ pipe.isRevealed THEN pipe
    ELSE IF bird.x + bird.width > pipe.x - Fx(50)
         THEN [pipe EXCEPT !.isRevealed = TRUE]
         ELSE pipe

-----------------------------------------------------------------------------
(* game/engine.ts *)

BLACK_HOLE_DURATION == 150

\* The largest number of 1/150 increments whose IEEE double sum is still
\* below PULL_PHASE = 0.4 (60 increments give 0.3999999999999995).
PULL_PHASE_STEPS == 60

createInitialBlackHole ==
    [active |-> FALSE, progress |-> 0, phase |-> "none",
     hasTriggeredThisGame |-> FALSE, waitingToResume |-> FALSE]

\* progress: number of 1/BLACK_HOLE_DURATION increments
getBlackHolePhase(progress) ==
    IF progress <= PULL_PHASE_STEPS THEN "pulling"
    ELSE IF progress < StepsToOne(BLACK_HOLE_DURATION) THEN "stretching"
    ELSE "none"

DefaultConfig ==
    [speed |-> Fx(SPEED_DEFAULT), jumpHeight |-> Fx(JUMP_HEIGHT_DEFAULT),
     gravity |-> GRAVITY_DEFAULT, physicsType |-> "parabolic",
     pipeGap |-> Fx(PIPE_GAP_DEFAULT), pipeSpacing |-> Fx(PIPE_SPACING_DEFAULT),
     pipeWidth |-> Fx(PIPE_WIDTH), chaosEnabled |-> FALSE,
     chaosHazards |-> [electricPillars |-> TRUE, gammaRays |-> TRUE, vortexes |-> TRUE,
                       particles |-> TRUE, schrodingerPipes |-> TRUE]]

createInitialState(bestScore) ==
    [bird |-> createBird, pipes |-> <<>>, score |-> 0, bestScore |-> bestScore,
     status |-> "ready", config |-> DefaultConfig,
     blackHole |-> createInitialBlackHole, chaos |-> createInitialChaos]

\* startGame also resets the module-level frameCount (see Jump)
startGame(state) ==
    [state EXCEPT
        !.status = "playing",
        !.bird = jumpBird(state.bird, state.config.jumpHeight, state.config.physicsType),
        !.chaos = [createInitialChaos EXCEPT !.enabled = state.config.chaosEnabled]]

\* mutant: restart also resets the configuration
restartGameDefaultConfig(state) == createInitialState(state.bestScore)

restartGame(state) ==
    [createInitialState(state.bestScore) EXCEPT !.config = state.config]

\* mutant: resuming after the black hole resets the whole special-event state
handleJumpResetsEvent(state) ==
    IF state.blackHole.active THEN state
    ELSE IF state.blackHole.waitingToResume
    THEN [state EXCEPT
            !.bird = jumpBird(state.bird, state.config.jumpHeight, state.config.physicsType),
            !.blackHole = createInitialBlackHole]
    ELSE IF state.status = "ready" THEN startGame(state)
    ELSE IF state.status = "playing"
    THEN [state EXCEPT
            !.bird = jumpBird(state.bird, state.config.jumpHeight, state.config.physicsType)]
    ELSE IF state.status = "over" THEN startGame(restartGame(state))
    ELSE state

\* mutant: an impulse after game over resets the game and waits for another
handleJumpRestartsOnly(state) ==
    IF state.blackHole.active THEN state
    ELSE IF state.blackHole.waitingToResume
    THEN [state EXCEPT
            !.bird = jumpBird(state.bird, state.config.jumpHeight, state.config.physicsType),
            !.blackHole.waitingToResume = FALSE]
    ELSE IF state.status = "ready" THEN startGame(state)
    ELSE IF state.status = "playing"
    THEN [state EXCEPT
            !.bird = jumpBird(state.bird, state.config.jumpHeight, state.config.physicsType)]
    ELSE IF state.status = "over" THEN restartGame(state)
    ELSE state

\* mutant: the impulse is applied while the animation runs
handleJumpDuringEvent(state) ==
    IF state.blackHole.waitingToResume
    THEN [state EXCEPT
            !.bird = jumpBird(state.bird, state.config.jumpHeight, state.config.physicsType),
            !.blackHole.waitingToResume = FALSE]
    ELSE IF state.status = "ready" THEN startGame(state)
    ELSE IF state.status = "playing"
    THEN [state EXCEPT
            !.bird = jumpBird(state.bird, state.config.jumpHeight, state.config.physicsType)]
    ELSE IF state.status = "over" THEN startGame(restartGame(state))
    ELSE state

handleJump(state) ==
    IF state.blackHole.active THEN state
    ELSE IF state.blackHole.waitingToResume
    THEN [state EXCEPT
            !.bird = jumpBird(state.bird, state.config.jumpHeight, state.config.physicsType),
            !.blackHole.waitingToResume = FALSE]
    ELSE IF state.status = "ready" THEN startGame(state)
    ELSE IF state.status = "playing"
    THEN [state EXCEPT
            !.bird = jumpBird(state.bird, state.config.jumpHeight, state.config.physicsType)]
    ELSE IF state.status = "over" THEN startGame(restartGame(state))
    ELSE state

\* handleJump reaches startGame, which sets frameCount = 0
jumpStartsGame(state) ==
    /\ ~state.blackHole.active /\ ~state.blackHole.waitingToResume
    /\ state.status \in {"ready", "over"}

\* updateGame gets past its two early returns and increments frameCount
tickAdvances(state) ==
    state.status = "playing" /\ ~state.blackHole.waitingToResume

\* mutant: the pipes keep scrolling while the animation runs
blackHoleTickScrolls(state) ==
    LET newProgress == state.blackHole.progress + 1
    IN  IF newProgress >= StepsToOne(BLACK_HOLE_DURATION)
        THEN [state EXCEPT
                !.pipes = <<>>,
                !.bird.velocity = 0,
                !.bird.y = Fx(CANVAS_height) \div 2,
                !.bird.x = Fx(80),
                !.blackHole.active = FALSE,
                !.blackHole.progress = 0,
                !.blackHole.phase = "none",
                !.blackHole.waitingToResume = TRUE,
                !.chaos.electricPillars = <<>>,
                !.chaos.gammaRays = <<>>,
                !.chaos.vortexes = <<>>,
                !.chaos.particles = <<>>]
        ELSE [state EXCEPT
                !.pipes = updatePipes(state.pipes, state.config.speed),
                !.blackHole.progress = newProgress,
                !.blackHole.phase = getBlackHolePhase(newProgress)]

\* mutant: completion leaves the hazard entities where they are
blackHoleTickKeepsHazards(state) ==
    LET newProgress == state.blackHole.progress + 1
    IN  IF newProgress >= StepsToOne(BLACK_HOLE_DURATION)
        THEN [state EXCEPT
                !.pipes = <<>>,
                !.bird.velocity = 0,
                !.bird.y = Fx(CANVAS_height) \div 2,
                !.bird.x = Fx(80),
                !.blackHole.active = FALSE,
                !.blackHole.progress = 0,
                !.blackHole.phase = "none",
                !.blackHole.waitingToResume = TRUE]
        ELSE [state EXCEPT
                !.blackHole.progress = newProgress,
                !.blackHole.phase = getBlackHolePhase(newProgress)]

\* mutant: the completion leaves phase and progress as they are
blackHoleTickKeepsProgress(state) ==
    LET newProgress == state.blackHole.progress + 1
    IN  IF newProgress >= StepsToOne(BLACK_HOLE_DURATION)
        THEN [state EXCEPT
                !.pipes = <<>>,
                !.bird.velocity = 0,
                !.bird.y = Fx(CANVAS_height) \div 2,
                !.bird.x = Fx(80),
                !.blackHole.active = FALSE,
                !.blackHole.waitingToResume = TRUE,
                !.chaos.electricPillars = <<>>,
                !.chaos.gammaRays = <<>>,
                !.chaos.vortexes = <<>>,
                !.chaos.particles = <<>>]
        ELSE [state EXCEPT
                !.blackHole.progress = newProgress,
                !.blackHole.phase = getBlackHolePhase(newProgress)]

\* mutant: the animation does not advance
blackHoleTickStalls(state) ==
    LET newProgress == state.blackHole.progress
    IN  IF newProgress >= StepsToOne(BLACK_HOLE_DURATION)
        THEN [state EXCEPT
                !.pipes = <<>>,
                !.bird.velocity = 0,
                !.bird.y = Fx(CANVAS_height) \div 2,
                !.bird.x = Fx(80),
                !.blackHole.active = FALSE,
                !.blackHole.progress = 0,
                !.blackHole.phase = "none",
                !.blackHole.waitingToResume = TRUE,
                !.chaos.electricPillars = <<>>,
                !.chaos.gammaRays = <<>>,
                !.chaos.vortexes = <<>>,
                !.chaos.particles = <<>>]
        ELSE [state EXCEPT
                !.blackHole.progress = newProgress,
                !.blackHole.phase = getBlackHolePhase(newProgress)]

\* updateGame, black-hole animation branch
blackHoleTick(state) ==
    LET newProgress == state.blackHole.progress + 1
    IN  IF newProgress >= StepsToOne(BLACK_HOLE_DURATION)
        THEN [state EXCEPT
                !.pipes = <<>>,
                !.bird.velocity = 0,
                !.bird.y = Fx(CANVAS_height) \div 2,
                !.bird.x = Fx(80),
                !.blackHole.active = FALSE,
                !.blackHole.progress = 0,
                !.blackHole.phase = "none",
                !.blackHole.waitingToResume = TRUE,
                !.chaos.electricPillars = <<>>,
                !.chaos.gammaRays = <<>>,
                !.chaos.vortexes = <<>>,
                !.chaos.particles = <<>>]
        ELSE [state EXCEPT
                !.blackHole.progress = newProgress,
                !.blackHole.phase = getBlackHolePhase(newProgress)]

\* mutant: pipes are made electric whether or not the hazards are enabled
spawnedPipesAnyMode(config, newChaos) ==
    LET created == {createPipe(Fx(CANVAS_width + 50), config.pipeGap, r) : r \in RandomDraws}
        ghosted == IF config.chaosEnabled /\ newChaos.schrodingerMode
                   THEN {applySchrodingerEffect(p, newChaos, r) :
                            p \in created, r \in RandomDraws}
                   ELSE created
    IN  IF config.chaosHazards.electricPillars
        THEN {IF r < 40 THEN makeElectricPipe(p) ELSE p : p \in ghosted, r \in RandomDraws}
        ELSE ghosted

\* the pipes a spawn can create, one per outcome of the random draws
spawnedPipes(config, newChaos) ==
    LET created == {createPipe(Fx(CANVAS_width + 50), config.pipeGap, r) : r \in RandomDraws}
        ghosted == IF config.chaosEnabled /\ newChaos.schrodingerMode
                   THEN {applySchrodingerEffect(p, newChaos, r) :
                            p \in created, r \in RandomDraws}
                   ELSE created
    IN  IF config.chaosEnabled /\ config.chaosHazards.electricPillars
        THEN {IF r < 40 THEN makeElectricPipe(p) ELSE p : p \in ghosted, r \in RandomDraws}
        ELSE ghosted

\* the record-break test of updateGame
justBeatBestScore(state, newScore) ==
    /\ Gt(newScore, state.bestScore)
    /\ Gt(state.bestScore, 0)
    /\ ~state.blackHole.hasTriggeredThisGame

\* mutant: the collision checks run before the record-break test
resolveTickCollisionFirst(state, newBird, spawned, newChaos) ==
    LET config == state.config
        electric == IF config.chaosEnabled /\ config.chaosHazards.electricPillars
                    THEN SeqMap(updateElectricPipe, spawned) ELSE spawned
        reveal(pipe) == revealSchrodingerPipe(pipe, newBird)
        revealed == IF config.chaosEnabled THEN SeqMap(reveal, electric) ELSE electric
        counted == countPassedPipes(newBird, revealed)
        newPipes == counted.pipes
        newScore == state.score + counted.scored
        newBestScore == MathMax(newScore, state.bestScore)
        isReal(p) == ~p.isGhost \/ ~p.isRevealed
        realPipes == SelectSeq(newPipes, isReal)
        hitPipe == checkAnyCollision(newBird, realPipes)
        hitBounds == isBirdOutOfBounds(newBird)
        hitChaos == checkChaosCollision(newBird, newChaos)
        hitElectric == config.chaosEnabled /\ checkElectricPipeCollision(newBird, newPipes)
        moved == [state EXCEPT !.bird = newBird, !.pipes = newPipes, !.score = newScore,
                               !.bestScore = newBestScore, !.chaos = newChaos]
    IN  IF hitPipe \/ hitBounds \/ hitChaos \/ hitElectric
        THEN [moved EXCEPT !.status = "over"]
        ELSE IF justBeatBestScore(state, newScore)
        THEN [moved EXCEPT !.blackHole =
                 [active |-> TRUE, progress |-> 0, phase |-> "pulling",
                  hasTriggeredThisGame |-> TRUE, waitingToResume |-> FALSE]]
        ELSE moved


\* mutant: the tick leaves the best score as it is
resolveTickKeepsBest(state, newBird, spawned, newChaos) ==
    LET config == state.config
        electric == IF config.chaosEnabled /\ config.chaosHazards.electricPillars
                    THEN SeqMap(updateElectricPipe, spawned) ELSE spawned
        reveal(pipe) == revealSchrodingerPipe(pipe, newBird)
        revealed == IF config.chaosEnabled THEN SeqMap(reveal, electric) ELSE electric
        counted == countPassedPipes(newBird, revealed)
        newPipes == counted.pipes
        newScore == state.score + counted.scored
        newBestScore == state.bestScore
        isReal(p) == ~p.isGhost \/ ~p.isRevealed
        realPipes == SelectSeq(newPipes, isReal)
        hitPipe == checkAnyCollision(newBird, realPipes)
        hitBounds == isBirdOutOfBounds(newBird)
        hitChaos == checkChaosCollision(newBird, newChaos)
        hitElectric == config.chaosEnabled /\ checkElectricPipeCollision(newBird, newPipes)
        moved == [state EXCEPT !.bird = newBird, !.pipes = newPipes, !.score = newScore,
                               !.bestScore = newBestScore, !.chaos = newChaos]
    IN  IF justBeatBestScore(state, newScore)
        THEN [moved EXCEPT !.blackHole =
                 [active |-> TRUE, progress |-> 0, phase |-> "pulling",
                  hasTriggeredThisGame |-> TRUE, waitingToResume |-> FALSE]]
        ELSE IF hitPipe \/ hitBounds \/ hitChaos \/ hitElectric
        THEN [moved EXCEPT !.status = "over"]
        ELSE moved

\* updateGame from scoring to the end, for the pipes after spawn
resolveTick(state, newBird, spawned, newChaos) ==
    LET config == state.config
        electric == IF config.chaosEnabled /\ config.chaosHazards.electricPillars
                    THEN SeqMap(updateElectricPipe, spawned) ELSE spawned
        reveal(pipe) == revealSchrodingerPipe(pipe, newBird)
        revealed == IF config.chaosEnabled THEN SeqMap(reveal, electric) ELSE electric
        counted == countPassedPipes(newBird, revealed)
        newPipes == counted.pipes
        newScore == state.score + counted.scored
        newBestScore == MathMax(newScore, state.bestScore)
        isReal(p) == ~p.isGhost \/ ~p.isRevealed
        realPipes == SelectSeq(newPipes, isReal)
        hitPipe == checkAnyCollision(newBird, realPipes)
        hitBounds == isBirdOutOfBounds(newBird)
        hitChaos == checkChaosCollision(newBird, newChaos)
        hitElectric == config.chaosEnabled /\ checkElectricPipeCollision(newBird, newPipes)
        moved == [state EXCEPT !.bird = newBird, !.pipes = newPipes, !.score = newScore,
                               !.bestScore = newBestScore, !.chaos = newChaos]
    IN  IF justBeatBestScore(state, newScore)
        THEN [moved EXCEPT !.blackHole =
                 [active |-> TRUE, progress |-> 0, phase |-> "pulling",
                  hasTriggeredThisGame |-> TRUE, waitingToResume |-> FALSE]]
        ELSE IF hitPipe \/ hitBounds \/ hitChaos \/ hitElectric
        THEN [moved EXCEPT !.status = "over"]
        ELSE moved

\* mutant: the swirl-field force moves the bird without the clamp
playTickUnclamped(state, newChaos) ==
    LET config == state.config
        effectiveGravity == config.gravity * newChaos.gravityMultiplier
        flown == updateBird(state.bird, effectiveGravity, config.physicsType,
                            config.jumpHeight)
        vortexForce == applyVortexForce(flown, newChaos)
        newBird == IF config.chaosEnabled
                   THEN [flown EXCEPT
                           !.x = flown.x + vortexForce.vx,
                           !.velocity = flown.velocity + vortexForce.vy]
                   ELSE flown
        scrolled == updatePipes(state.pipes, config.speed)
        spawned == IF shouldSpawnPipe(scrolled, config.pipeSpacing)
                   THEN {Append(scrolled, p) : p \in spawnedPipes(config, newChaos)}
                   ELSE {scrolled}
    IN  {resolveTick(state, newBird, pipes, newChaos) : pipes \in spawned}

\* updateGame, normal gameplay, for one outcome newChaos of the hazard update
playTick(state, newChaos) ==
    LET config == state.config
        effectiveGravity == config.gravity * newChaos.gravityMultiplier
        flown == updateBird(state.bird, effectiveGravity, config.physicsType,
                            config.jumpHeight)
        vortexForce == applyVortexForce(flown, newChaos)
        newBird == IF config.chaosEnabled
                   THEN [flown EXCEPT
                           !.x = Max(Fx(20), Min(flown.x + vortexForce.vx, Fx(150))),
                           !.velocity = flown.velocity + vortexForce.vy]
                   ELSE flown
        scrolled == updatePipes(state.pipes, config.speed)
        spawned == IF shouldSpawnPipe(scrolled, config.pipeSpacing)
                   THEN {Append(scrolled, p) : p \in spawnedPipes(config, newChaos)}
                   ELSE {scrolled}
    IN  {resolveTick(state, newBird, pipes, newChaos) : pipes \in spawned}

\* mutant: the tick does not wait for the impulse after the black hole
updateGameIgnoresWaiting(state, frame) ==
    IF state.status # "playing" THEN {state}
    ELSE IF state.blackHole.active THEN {blackHoleTick(state)}
    ELSE LET updated == IF state.config.chaosEnabled
                        THEN updateChaos(state.chaos, state.config.speed, frame + 1,
                                         state.config.chaosHazards)
                        ELSE {state.chaos}
             triggered == IF state.config.chaosEnabled
                          THEN {checkGravityFlipTrigger(state.bird, c) : c \in updated}
                          ELSE updated
         IN  UNION {playTick(state, newChaos) : newChaos \in triggered}

\* mutant: the tick runs whatever the status
updateGameAnyStatus(state, frame) ==
    IF state.blackHole.waitingToResume THEN {state}
    ELSE IF state.blackHole.active THEN {blackHoleTick(state)}
    ELSE LET updated == IF state.config.chaosEnabled
                        THEN updateChaos(state.chaos, state.config.speed, frame + 1,
                                         state.config.chaosHazards)
                        ELSE {state.chaos}
             triggered == IF state.config.chaosEnabled
                          THEN {checkGravityFlipTrigger(state.bird, c) : c \in updated}
                          ELSE updated
         IN  UNION {playTick(state, newChaos) : newChaos \in triggered}

\* The set of states updateGame can return when the frame counter is frame
\* at the call (one per outcome of the random draws).
updateGame(state, frame) ==
    IF state.status # "playing" THEN {state}
    ELSE IF state.blackHole.waitingToResume THEN {state}
    ELSE IF state.blackHole.active THEN {blackHoleTick(state)}
    ELSE LET updated == IF state.config.chaosEnabled
                        THEN updateChaos(state.chaos, state.config.speed, frame + 1,
                                         state.config.chaosHazards)
                        ELSE {state.chaos}
             triggered == IF state.config.chaosEnabled
                          THEN {checkGravityFlipTrigger(state.bird, c) : c \in updated}
                          ELSE updated
         IN  UNION {playTick(state, newChaos) : newChaos \in triggered}

\* updates: a record holding the fields of GameConfig to change
updateConfig(state, updates) ==
    LET newConfig == [k \in DOMAIN state.config |->
                         IF k \in DOMAIN updates THEN updates[k] ELSE state.config[k]]
    IN  [state EXCEPT !.config = newConfig, !.chaos.enabled = newConfig.chaosEnabled]

-----------------------------------------------------------------------------
(* hooks/useGame.ts *)

\* storage: the item of localStorage under BEST_SCORE_KEY, which is absent
\* ([kind |-> "absent"]), the decimal digits of n ([kind |-> "number",
\* value |-> n]) or a string parseInt cannot read ([kind |-> "corrupt"])
loadBestScore(stored) ==
    CASE stored.kind = "number" -> stored.value
      [] stored.kind = "corrupt" -> NaN
      [] OTHER -> 0

\* score.toString() is "NaN" for NaN
saveBestScore(score) ==
    IF score = NaN THEN [kind |-> "corrupt", value |-> 0]
    ELSE [kind |-> "number", value |-> score]

\* Partial<GameConfig> values handed to setConfig
\* a slow-falling flight that clears the widest pipe spacing
EasyConfig ==
    [speed |-> Fx(10), pipeSpacing |-> Fx(400), gravity |-> 5, jumpHeight |-> Fx(4)]

\* a flight that reaches the ground in the frame the second pipe is passed
DiveConfig ==
    [speed |-> Fx(10), pipeSpacing |-> Fx(390), gravity |-> 15, jumpHeight |-> Fx(5)]

ConfigUpdates ==
    {EasyConfig, DiveConfig, [chaosEnabled |-> TRUE], [chaosEnabled |-> FALSE]}

\* frames are advancing: commands sent now interleave with the frame loop
InPlay(state) == tickAdvances(state)

\* the command may be sent now (bound on commands interleaved with frames)
MaySend(state, next) ==
    (InPlay(state) /\ next # state) =>
        frameCount % InputPeriod = InputPhase

Init ==
    /\ storage \in {[kind |-> "absent", value |-> 0]}
                     \cup {[kind |-> "number", value |-> n] : n \in 1..MaxBest}
    /\ gameState = createInitialState(loadBestScore(storage))
    /\ frameCount = 0
    /\ bestAtStart = gameState.bestScore

\* gameLoop: one requestAnimationFrame callback
gameLoop ==
    /\ \E newState \in updateGame(gameState, frameCount) :
          /\ gameState' = newState
          /\ storage' = IF newState.status = "over"
                           /\ Gt(newState.bestScore, gameState.bestScore)
                        THEN saveBestScore(newState.bestScore) ELSE storage
    /\ frameCount' = IF tickAdvances(gameState) THEN frameCount + 1 ELSE frameCount
    /\ UNCHANGED bestAtStart

\* the frame loop, followed for MaxFrames frames of each game
Tick ==
    /\ tickAdvances(gameState) => frameCount < MaxFrames
    /\ gameLoop

\* jump: the impulse command
Jump ==
    LET newState == handleJump(gameState)
    IN  /\ MaySend(gameState, newState)
        /\ jumpStartsGame(gameState) => gameState.bestScore <= MaxBest
        /\ gameState' = newState
        /\ frameCount' = IF jumpStartsGame(gameState) THEN 0 ELSE frameCount
        /\ bestAtStart' = IF jumpStartsGame(gameState) THEN newState.bestScore
                          ELSE bestAtStart
        /\ UNCHANGED storage

\* restart: the Restart button
Restart ==
    LET newState == restartGame(gameState)
    IN  /\ MaySend(gameState, newState)
        /\ gameState' = newState
        /\ UNCHANGED <<frameCount, storage, bestAtStart>>

\* setConfig: a configuration update from the control panel
SetConfig ==
    \E updates \in ConfigUpdates :
        LET newState == updateConfig(gameState, updates)
        IN  /\ MaySend(gameState, newState)
            /\ gameState' = newState
            /\ UNCHANGED <<frameCount, storage, bestAtStart>>

Next == Tick \/ Jump \/ Restart \/ SetConfig

Spec == Init /\ [][Next]_vars

-----------------------------------------------------------------------------
(* The start of a session for every kind of stored best score, followed   *)
(* for the first MaxLoadFrames frames of each game.  The sliders may have  *)
(* been moved before the first game, and the player may flap once early    *)
(* in a game, in frame LoadFlapFrame.                                       *)

MaxLoadFrames == 60
LoadFlapFrame == 15

\* a flight that, flapped again in frame 15, comes down with the bird's
\* bottom edge exactly on the ground line in frame 46 (gravity 0.75 and the
\* positions it produces are exact in binary floating point)
TouchConfig == [gravity |-> 75, jumpHeight |-> Fx(5)]

\* a flight that leaves the field through its top
RiseConfig == [gravity |-> 5, jumpHeight |-> Fx(11)]

LoadConfigs == {TouchConfig, RiseConfig, [chaosEnabled |-> FALSE]}

StoredItems ==
    {[kind |-> "absent", value |-> 0], [kind |-> "corrupt", value |-> 0]}
      \cup {[kind |-> "number", value |-> n] : n \in 1..MaxBest}

LoadInit ==
    /\ storage \in StoredItems
    /\ gameState \in {updateConfig(createInitialState(loadBestScore(storage)), updates) :
                         updates \in LoadConfigs}
    /\ frameCount = 0
    /\ bestAtStart = gameState.bestScore

LoadTick ==
    /\ tickAdvances(gameState) => frameCount < MaxLoadFrames
    /\ gameLoop

\* jump: an impulse early in the game
LoadFlap ==
    /\ InPlay(gameState)
    /\ frameCount = LoadFlapFrame
    /\ gameState' = handleJump(gameState)
    /\ UNCHANGED <<frameCount, storage, bestAtStart>>

LoadNext == LoadTick \/ LoadFlap \/ Jump \/ Restart \/ SetConfig

LoadSpec == LoadInit /\ [][LoadNext]_vars

-----------------------------------------------------------------------------
(* The pipe functions in the arithmetic of the program.  The games above   *)
(* keep positions in hundredths, which is exact for the sums they form;    *)
(* createPipe multiplies a random double by the available height and adds  *)
(* two numbers to it, and each of the three operations rounds its result   *)
(* to the nearest double.  A double d with 0 <= d < 1024 is written here   *)
(* as its integer part and its fraction in four digits of base 8192 (52    *)
(* binary places):  d = whole + (((f1 * 8192 + f2) * 8192 + f3) * 8192 +   *)
(* f4) / 2^52.                                                             *)

\* Math.random(): multiples of 2^-52 in [0, 1), by their four digits:
\* 0, 0.5, 1 - 2^-52 and 0.10349882019760859
RandomDoubles ==
    {<<0, 0, 0, 0>>, <<4096, 0, 0, 0>>, <<8191, 8191, 8191, 8191>>,
     <<847, 7064, 2038, 1508>>}

\* the number whole + frac with the carries of its digits propagated
Normalize(whole, frac) ==
    LET n4 == frac[4]
        n3 == frac[3] + n4 \div 8192
        n2 == frac[2] + n3 \div 8192
        n1 == frac[1] + n2 \div 8192
    IN  [whole |-> whole + n1 \div 8192,
         frac |-> <<n1 % 8192, n2 % 8192, n3 % 8192, n4 % 8192>>]

\* the spacing of the doubles around a number with this integer part, in
\* units of 2^-52: the doubles in [2^e, 2^(e+1)) are 2^(e-52) apart
RECURSIVE UlpUnits(_)
UlpUnits(whole) == IF whole < 2 THEN 1 ELSE 2 * UlpUnits(whole \div 2)

\* the double nearest to the number v, ties to the even mantissa
RoundDouble(v) ==
    LET ulp == UlpUnits(v.whole)
        low == v.frac[4] % ulp
        down == v.frac[4] - low
        roundUp == 2 * low > ulp \/ (2 * low = ulp /\ (down \div ulp) % 2 = 1)
    IN  Normalize(v.whole, [v.frac EXCEPT ![4] = IF roundUp THEN down + ulp ELSE down])

\* r * n and d + n as the program computes them, for a double r in [0, 1),
\* a double d and an integer n
TimesInt(r, n) == RoundDouble(Normalize(0, <<r[1] * n, r[2] * n, r[3] * n, r[4] * n>>))
PlusInt(d, n) == RoundDouble([whole |-> d.whole + n, frac |-> d.frac])

\* mutant: the bottom pipe starts at the lowest row a gap can end at
createPipeDoubleFixedBottom(x, gap, r) ==
    LET availableHeight == CANVAS_height - GROUND_HEIGHT - gap - (MIN_PIPE_HEIGHT * 2)
        topHeight == PlusInt(TimesInt(r, availableHeight), MIN_PIPE_HEIGHT)
    IN  [createPipe(x, Fx(gap), 0) EXCEPT
            !.topHeight = topHeight,
            !.bottomY = PlusInt(topHeight, availableHeight + gap)]

\* createPipe for the outcome r of Math.random(); gap is a whole number
createPipeDouble(x, gap, r) ==
    LET availableHeight == CANVAS_height - GROUND_HEIGHT - gap - (MIN_PIPE_HEIGHT * 2)
        topHeight == PlusInt(TimesInt(r, availableHeight), MIN_PIPE_HEIGHT)
    IN  [createPipe(x, Fx(gap), 0) EXCEPT
            !.topHeight = topHeight,
            !.bottomY = PlusInt(topHeight, gap)]

MaxPipeFrames == 70

\* the gap sizes of the slider: its ends and its default
PipeGaps == {PIPE_GAP_MIN, PIPE_GAP_DEFAULT, PIPE_GAP_MAX}

PipeInit ==
    /\ storage = [kind |-> "absent", value |-> 0]
    /\ gameState \in {updateConfig(createInitialState(0),
                                   [speed |-> Fx(10), pipeSpacing |-> Fx(400),
                                    pipeGap |-> Fx(gap), chaosEnabled |-> TRUE]) :
                         gap \in PipeGaps}
    /\ frameCount = 0
    /\ bestAtStart = 0

\* the pipe list after the pipe steps of one tick of updateGame: scroll,
\* spawn, electricity and scoring, against the bird at its start position
PipeStep ==
    /\ frameCount < MaxPipeFrames
    /\ LET config == gameState.config
           scrolled == updatePipes(gameState.pipes, config.speed)
           created == {createPipeDouble(Fx(CANVAS_width + 50), config.pipeGap \div 100, r) :
                          r \in RandomDoubles}
           spawned == IF shouldSpawnPipe(scrolled, config.pipeSpacing)
                      THEN {Append(scrolled, pipe) :
                              pipe \in created \cup {makeElectricPipe(p) : p \in created}}
                      ELSE {scrolled}
       IN  \E pipes \in spawned :
              gameState' =
                  [gameState EXCEPT !.pipes =
                      countPassedPipes(gameState.bird,
                                       SeqMap(updateElectricPipe, pipes)).pipes]
    /\ frameCount' = frameCount + 1
    /\ UNCHANGED <<storage, bestAtStart>>

PipeSpec == PipeInit /\ [][PipeStep]_vars

-----------------------------------------------------------------------------
(* Late game: the shared hazard spawner first fires after SPAWN_INTERVAL     *)
(* frames, so hazards meet the black hole only in a game that lasts longer.  *)
(* LateSpec follows such a game from frame LateStart on. Its initial states  *)
(* are computed by playing the game from construction with updateGame and    *)
(* handleJump.                                                               *)

\* a slow game: pipes take 700 frames to pass, the bird hovers when it flaps
\* every LateFlapPeriod frames
LateConfig ==
    [speed |-> Fx(1), pipeSpacing |-> Fx(150), gravity |-> 5, jumpHeight |-> Fx(3),
     pipeGap |-> Fx(250), chaosEnabled |-> TRUE]

LateFlapPeriod == 120
LateFlapPhase == 60

\* hazard toggles of the control panel: everything on, or particles off
LateHazards ==
    {DefaultConfig.chaosHazards, [DefaultConfig.chaosHazards EXCEPT !.particles = FALSE]}

\* outcome of a tick in which no hazard is spawned, nothing ends the game and
\* a spawned pipe is an ordinary pipe with the higher of the two gaps
Uneventful(state) ==
    /\ state.status = "playing"
    /\ state.chaos.lastSpawnTime = 0
    /\ \A i \in 1..Len(state.pipes) :
          /\ ~state.pipes[i].isElectric /\ ~state.pipes[i].isGhost
          /\ state.pipes[i].topHeight
                = createPipe(0, state.config.pipeGap, 20).topHeight

\* one scripted frame: the flap, if it is due, and then the tick
PlayedFrame(state, frame) ==
    LET flapped == IF frame % LateFlapPeriod = LateFlapPhase
                   THEN handleJump(state) ELSE state
    IN  CHOOSE next \in updateGame(flapped, frame) : Uneventful(next)

\* the game state after frames first+1 .. last, given the state after frame first
RECURSIVE Played(_, _, _)
Played(state, first, last) ==
    IF first >= last THEN state
    ELSE IF last = first + 1 THEN PlayedFrame(state, first)
    ELSE LET mid == (first + last) \div 2
         IN  CHOOSE end \in {Played(half, mid, last) :
                                half \in {Played(state, first, mid)}} : TRUE

LateStarts ==
    {startGame(updateConfig(updateConfig(createInitialState(1), LateConfig),
                            [chaosHazards |-> hazards])) : hazards \in LateHazards}

LateGames == {Played(state, 0, LateStart) : state \in LateStarts}

LateInit ==
    /\ storage = saveBestScore(1)
    /\ gameState \in LateGames
    /\ frameCount = LateStart
    /\ bestAtStart = 1

\* the frame loop, followed in frames LateStart+1 .. MaxLateFrames
LateTick ==
    /\ tickAdvances(gameState) => (frameCount >= LateStart /\ frameCount < MaxLateFrames)
    /\ gameLoop

LateNext == LateTick \/ Jump \/ Restart \/ SetConfig

LateSpec == LateInit /\ [][LateNext]_vars

\* The browser keeps calling the frame callback (requestAnimationFrame is
\* requested again at the end of every callback), so a tick that the
\* animation waits for is eventually taken.
AnimationTick == gameState.blackHole.active /\ LateTick

EventSpec == LateSpec /\ WF_vars(AnimationTick)

-----------------------------------------------------------------------------
(* A long game with beams and electric pipes.  The shared spawner is due   *)
(* only after frame 400 and a beam lives 303 frames, so the frames         *)
(* 0..HazardStart of a slow game are played by the model's own updateGame  *)
(* and handleJump, as in the late game above, and every behaviour of the   *)
(* game from that frame on is followed to frame MaxHazardFrames.  The      *)
(* player flaps every 120 frames.  Half of the initial states hold two     *)
(* gravity-inversion zones, which no code of the repository creates and    *)
(* which a caller of the engine has to put into the hazard aggregate.      *)

HazardBest == 5
HazardStart == 400
MaxHazardFrames == 810
SpawnSlack == 3
HazardFlapPeriod == 240
HazardFlapPhase == 180

\* beams and electric pipes are the enabled hazard kinds
HazardKinds ==
    [electricPillars |-> TRUE, gammaRays |-> TRUE, vortexes |-> FALSE,
     particles |-> FALSE, schrodingerPipes |-> FALSE]

HazardStarts ==
    {startGame(updateConfig(updateConfig(createInitialState(HazardBest), LateConfig),
                            [chaosHazards |-> HazardKinds]))}

HazardGames == {Played(state, 0, HazardStart) : state \in HazardStarts}

\* two overlapping inactive zones ahead of the bird (GravityFlip without id)
InjectedFlips ==
    <<[x |-> Fx(85), width |-> Fx(50), isActive |-> FALSE, duration |-> 30, progress |-> 0],
      [x |-> Fx(90), width |-> Fx(50), isActive |-> FALSE, duration |-> 30, progress |-> 0]>>

HazardInit ==
    /\ storage = saveBestScore(HazardBest)
    /\ gameState \in HazardGames
                       \cup {[state EXCEPT !.chaos.gravityFlips = InjectedFlips] :
                               state \in HazardGames}
    /\ frameCount = HazardStart
    /\ bestAtStart = HazardBest

\* the player's flap is due in this frame
FlapDue ==
    \/ frameCount % InputPeriod = InputPhase
    \/ frameCount % HazardFlapPeriod = HazardFlapPhase

\* the frame loop, followed from frame HazardStart to frame MaxHazardFrames
\* of games whose first hazard spawns within SpawnSlack frames of being due
HazardTick ==
    /\ tickAdvances(gameState) =>
          /\ frameCount >= HazardStart /\ frameCount < MaxHazardFrames
          /\ gameState.chaos.lastSpawnTime = 0 => frameCount < HazardStart + SpawnSlack
          /\ FlapDue => gameState.bird.jumpTime = 0
    /\ gameLoop

\* jump: the impulse of the player's regular flap
HazardFlap ==
    /\ InPlay(gameState)
    /\ frameCount % HazardFlapPeriod = HazardFlapPhase
    /\ gameState.bird.jumpTime # 0
    /\ gameState' = handleJump(gameState)
    /\ UNCHANGED <<frameCount, storage, bestAtStart>>

HazardUpdates == {[chaosEnabled |-> TRUE], [chaosEnabled |-> FALSE]}

\* setConfig: the hazards switch of the control panel
HazardSetConfig ==
    \E updates \in HazardUpdates :
        LET newState == updateConfig(gameState, updates)
        IN  /\ MaySend(gameState, newState)
            /\ gameState' = newState
            /\ UNCHANGED <<frameCount, storage, bestAtStart>>

HazardNext == HazardTick \/ HazardFlap \/ Jump \/ Restart \/ HazardSetConfig

HazardSpec == HazardInit /\ [][HazardNext]_vars

-----------------------------------------------------------------------------
(* Swirl fields: a field pulls with at most 0.15 per tick, so the bird     *)
(* drifts to the edge of its band only over many fields.  A slow game with *)
(* swirl fields as the only hazard kind is followed from its start: the    *)
(* spawner fires as soon as it may, every random draw of a game is the     *)
(* same draw, and the player hovers just under the line of the fields (low *)
(* draw) or just above it (high draw).                                     *)

MaxVortexFrames == 10400
VortexBest == 3

VortexKinds ==
    [electricPillars |-> FALSE, gammaRays |-> FALSE, vortexes |-> TRUE,
     particles |-> FALSE, schrodingerPipes |-> FALSE]

VortexConfig ==
    [speed |-> Fx(1), pipeSpacing |-> Fx(400), gravity |-> 95, jumpHeight |-> Fx(3),
     pipeGap |-> Fx(PIPE_GAP_MAX), chaosEnabled |-> TRUE, chaosHazards |-> VortexKinds]

\* the y the player holds the bird above, for the draw of the game
HoverLine(state) ==
    IF \/ \E i \in 1..Len(state.pipes) :
             state.pipes[i].topHeight = createPipe(0, state.config.pipeGap, 90).topHeight
       \/ \E i \in 1..Len(state.chaos.vortexes) :
             state.chaos.vortexes[i].y = spawnVortex(90).y
    THEN Fx(340) ELSE Fx(210)

\* the player's flap is due: the bird sinks below the line, or waits for the
\* flap that resumes the game
HoverFlapDue(state) ==
    /\ InPlay(state) \/ state.blackHole.waitingToResume
    /\ ~state.blackHole.active
    /\ \/ state.blackHole.waitingToResume
       \/ state.bird.y > HoverLine(state) /\ state.bird.velocity >= 0

\* every pipe and every swirl field of the state comes from draw r, and the
\* spawner has fired if it was due in frame
SameDraw(state, r, frame) ==
    /\ \A i \in 1..Len(state.pipes) :
          state.pipes[i].topHeight = createPipe(0, state.config.pipeGap, r).topHeight
    /\ \A i \in 1..Len(state.chaos.vortexes) :
          state.chaos.vortexes[i].y = spawnVortex(r).y
    /\ \/ state.blackHole.active \/ state.blackHole.waitingToResume
       \/ frame - state.chaos.lastSpawnTime <= SPAWN_INTERVAL

VortexInit ==
    /\ storage = saveBestScore(VortexBest)
    /\ gameState = startGame(updateConfig(createInitialState(VortexBest), VortexConfig))
    /\ frameCount = 0
    /\ bestAtStart = VortexBest

\* the frame loop, followed for MaxVortexFrames frames
VortexTick ==
    /\ frameCount < MaxVortexFrames
    /\ ~HoverFlapDue(gameState)
    /\ gameLoop
    /\ \E r \in RandomDraws : SameDraw(gameState', r, frameCount')

\* jump: the impulse of the hovering player
VortexFlap ==
    /\ HoverFlapDue(gameState)
    /\ gameState' = handleJump(gameState)
    /\ UNCHANGED <<frameCount, storage, bestAtStart>>

VortexNext == VortexTick \/ VortexFlap \/ Restart

VortexSpec == VortexInit /\ [][VortexNext]_vars

-----------------------------------------------------------------------------
(* Electric gaps: games with electric pipes as the only hazard kind, at    *)
(* the speeds at which the first pipe reaches the bird while its           *)
(* electricity is on (10), off (4), and off and then on again (3).  The    *)
(* player hovers inside the gap as above and may switch the hazards.       *)

MaxGapFrames == 200

GapSpeeds == {3, SPEED_DEFAULT, 10}

GapKinds ==
    [electricPillars |-> TRUE, gammaRays |-> FALSE, vortexes |-> FALSE,
     particles |-> FALSE, schrodingerPipes |-> FALSE]

GapConfigs ==
    {[speed |-> Fx(speed), pipeSpacing |-> Fx(150), gravity |-> 95, jumpHeight |-> Fx(3),
      pipeGap |-> Fx(PIPE_GAP_MAX), chaosEnabled |-> TRUE, chaosHazards |-> GapKinds] :
        speed \in GapSpeeds}

GapInit ==
    /\ storage = [kind |-> "absent", value |-> 0]
    /\ gameState \in {startGame(updateConfig(createInitialState(0), updates)) :
                        updates \in GapConfigs}
    /\ frameCount = 0
    /\ bestAtStart = 0

\* the frame loop, followed for MaxGapFrames frames
GapTick ==
    /\ frameCount < MaxGapFrames
    /\ ~HoverFlapDue(gameState)
    /\ gameLoop
    /\ \E r \in RandomDraws : SameDraw(gameState', r, frameCount')

GapNext == GapTick \/ VortexFlap \/ HazardSetConfig

GapSpec == GapInit /\ [][GapNext]_vars

-----------------------------------------------------------------------------
(* Properties *)

Pipes == gameState.pipes
BlackHole == gameState.blackHole
Bird == gameState.bird
Chaos == gameState.chaos
PipeIndexes(pipes) == 1..Len(pipes)

\* q, a pipe after a step, is the pipe p from before the step: pipes keep
\* their gap, stay where they are or scroll left by the configured speed,
\* and two pipes are never closer than the smallest spacing.
SamePipe(p, q) ==
    /\ q.topHeight = p.topHeight /\ q.bottomY = p.bottomY
    /\ q.x \in {p.x, p.x - gameState.config.speed}

\* indexes of the pipes after the step that the step marked passed
NewlyPassed ==
    {j \in PipeIndexes(Pipes') :
        /\ Pipes'[j].passed
        /\ ~\E i \in PipeIndexes(Pipes) : SamePipe(Pipes[i], Pipes'[j]) /\ Pipes[i].passed}

\* C1: no step turns a pipe's passed flag from true back to false (so it
\* turns true at most once), and every tick adds to the score exactly the
\* number of pipes whose flag that tick turned from false to true.
C1_ExactlyOnceScoring ==
    [][/\ \A i \in PipeIndexes(Pipes), j \in PipeIndexes(Pipes') :
             (SamePipe(Pipes[i], Pipes'[j]) /\ Pipes[i].passed) => Pipes'[j].passed
       /\ (gameState'.score - gameState.score # Cardinality(NewlyPassed)) => ~gameLoop]_vars

\* C1 witness: one pipe has been marked passed and counted while another
\* one on screen has not
C1_Witness ==
    /\ gameState.score = 1
    /\ \E i \in PipeIndexes(Pipes) : Pipes[i].passed
    /\ \E i \in PipeIndexes(Pipes) : ~Pipes[i].passed

\* C2 (as claimed): the black hole is active only in a game that was started
\* with a best score greater than 0.
C2_OnlyWithPreviousBest ==
    BlackHole.active => bestAtStart > 0

\* the step is a restart: the Restart button, or an impulse when the game is over
RestartStep == Restart \/ (Jump /\ gameState.status = "over")

\* C3: hasTriggeredThisGame, once true, is reset by restart only, and the
\* black hole becomes active only in a step that sets the flag from false to
\* true; so the event becomes active at most once between two restarts.
C3_AtMostOncePerGame ==
    [][/\ (BlackHole.hasTriggeredThisGame /\ ~BlackHole'.hasTriggeredThisGame)
              => RestartStep
       /\ (~BlackHole.active /\ BlackHole'.active)
              => (~BlackHole.hasTriggeredThisGame /\ BlackHole'.hasTriggeredThisGame)]_vars

\* C3 witness: play goes on after the event (resumed by an impulse, ticks
\* taken since) with the flag still set
C3_Witness ==
    /\ gameState.status = "playing"
    /\ BlackHole.hasTriggeredThisGame /\ ~BlackHole.active /\ ~BlackHole.waitingToResume
    /\ gameState.bird.jumpTime > 0

\* the actor put at rest in the centre of the canvas
Recentred(bird) ==
    [bird EXCEPT !.velocity = 0, !.y = Fx(CANVAS_height) \div 2, !.x = Fx(BIRD_x)]

\* the entities of a list after the step are those before it, untouched, or none
KeptOrCleared(before, after) == after = before \/ after = <<>>

\* C4: a tick taken while the black hole is active or waits for the impulse
\* leaves score, bestScore and status alone, moves, spawns and marks no pipe
\* (the pipes stay as they are or are all removed), advances and spawns no
\* hazard entity, does not advance the bird by physics (it stays as it is or
\* is put at rest in the centre) and does not end the game.
C4_GameplaySuspended ==
    [][((BlackHole.active \/ BlackHole.waitingToResume) /\ gameLoop) =>
          /\ gameState'.score = gameState.score
          /\ gameState'.bestScore = gameState.bestScore
          /\ gameState'.status = gameState.status
          /\ KeptOrCleared(Pipes, Pipes')
          /\ KeptOrCleared(Chaos.electricPillars, Chaos'.electricPillars)
          /\ KeptOrCleared(Chaos.gammaRays, Chaos'.gammaRays)
          /\ KeptOrCleared(Chaos.gravityFlips, Chaos'.gravityFlips)
          /\ KeptOrCleared(Chaos.vortexes, Chaos'.vortexes)
          /\ KeptOrCleared(Chaos.particles, Chaos'.particles)
          /\ Chaos'.lastSpawnTime = Chaos.lastSpawnTime
          /\ Chaos'.gravityMultiplier = Chaos.gravityMultiplier
          /\ Bird' \in {Bird, Recentred(Bird)}
          /\ storage' = storage]_vars

\* C4 witness: the animation has run for some ticks over a moving bird, a
\* pipe that is not yet passed and a beam
C4_Witness ==
    /\ BlackHole.active /\ BlackHole.progress >= 2
    /\ Bird.velocity # 0
    /\ \E i \in PipeIndexes(Pipes) : ~Pipes[i].passed
    /\ Len(Chaos.gammaRays) > 0

\* C5: a tick of normal play whose scoring takes the score above a best
\* score greater than 0, in a game where the event has not fired, ends with
\* the black hole active, pulling, at progress 0, and with status playing
\* whatever the bird touches in that tick.
C5_RecordBreakPreemptsCollision ==
    [][(/\ gameState.status = "playing"
        /\ ~BlackHole.active /\ ~BlackHole.waitingToResume
        /\ ~BlackHole.hasTriggeredThisGame
        /\ gameState.bestScore > 0
        /\ gameState'.score > gameState.bestScore
        /\ gameLoop) =>
          /\ BlackHole'.active
          /\ BlackHole'.phase = "pulling"
          /\ BlackHole'.progress = 0
          /\ BlackHole'.hasTriggeredThisGame
          /\ gameState'.status = "playing"]_vars

\* C5 witness: the black hole has just been triggered by a tick that left
\* the bird out of bounds
C5_Witness ==
    /\ BlackHole.active /\ BlackHole.progress = 0
    /\ gameState.status = "playing"
    /\ isBirdOutOfBounds(Bird)

\* C6: the tick that completes the black-hole animation leaves no pipe and
\* no hazard entity (beams, gravity-inversion zones, swirl fields,
\* projectiles, pillars), the bird at rest in the centre, active false and
\* waitingToResume true.
C6_CompletionClears ==
    [][(BlackHole.active /\ ~BlackHole'.active /\ gameLoop) =>
          /\ Pipes' = <<>>
          /\ Chaos'.gammaRays = <<>>
          /\ Chaos'.gravityFlips = <<>>
          /\ Chaos'.vortexes = <<>>
          /\ Chaos'.particles = <<>>
          /\ Chaos'.electricPillars = <<>>
          /\ Bird'.velocity = 0
          /\ Bird'.y = Fx(CANVAS_height) \div 2
          /\ Bird'.x = Fx(BIRD_x)
          /\ BlackHole'.waitingToResume]_vars

\* C6 witness: the animation has completed in a game in which a hazard had
\* been spawned
C6_Witness ==
    /\ BlackHole.waitingToResume /\ ~BlackHole.active
    /\ Chaos.lastSpawnTime > 0
    /\ Pipes = <<>> /\ Bird.velocity = 0

\* C7: while waitingToResume is true a tick changes nothing; the step that
\* clears it with the game still playing is an impulse; and an impulse then
\* clears it, applies the jump to the bird and leaves score, bestScore,
\* status and hasTriggeredThisGame as they are.
C7_ResumeOnImpulseOnly ==
    [][/\ (BlackHole.waitingToResume /\ gameLoop) => gameState' = gameState
       /\ (BlackHole.waitingToResume /\ ~BlackHole'.waitingToResume
              /\ gameState'.status = "playing") => Jump
       /\ (BlackHole.waitingToResume /\ Jump) =>
              /\ ~BlackHole'.waitingToResume
              /\ Bird' = jumpBird(Bird, gameState.config.jumpHeight,
                                  gameState.config.physicsType)
              /\ gameState'.score = gameState.score
              /\ gameState'.bestScore = gameState.bestScore
              /\ gameState'.status = "playing" /\ gameState.status = "playing"
              /\ BlackHole'.hasTriggeredThisGame
                    = BlackHole.hasTriggeredThisGame]_vars

\* C7 witness: the impulse has just resumed play after the black hole
C7_Witness ==
    /\ gameState.status = "playing"
    /\ BlackHole.hasTriggeredThisGame /\ ~BlackHole.active /\ ~BlackHole.waitingToResume
    /\ Pipes = <<>>
    /\ Bird.jumpTime = 0 /\ Bird.velocity < 0

\* C8: a tick changes status only from playing to over; an impulse takes
\* ready to playing, keeps playing, and takes over to playing; and a step
\* from over to playing is an impulse.
C8_StatusOrder ==
    [][/\ \/ gameState'.status = gameState.status
          \/ (gameState.status = "playing" /\ gameState'.status = "over")
          \/ ~gameLoop
       /\ Jump =>
              (\/ (gameState.status \in {"ready", "over"} /\ gameState'.status = "playing")
               \/ (gameState.status = "playing" /\ gameState'.status = "playing"))
       /\ (gameState.status = "over" /\ gameState'.status = "playing") => Jump]_vars

\* C8 witness: a tick has ended a game that an impulse had started and in
\* which the best score was raised
C8_Witness ==
    /\ gameState.status = "over"
    /\ gameState.score >= 1
    /\ gameState.bestScore > bestAtStart

\* C9: a tick taken when status is not playing changes nothing: not the
\* game state, not the frame counter, not the stored best score.
C9_TickNoOpUnlessPlaying ==
    [][(gameState.status # "playing" /\ gameLoop) =>
          /\ gameState' = gameState
          /\ frameCount' = frameCount
          /\ storage' = storage]_vars

\* C9 witness: the game is over with pipes on screen and a score
C9_Witness ==
    /\ gameState.status = "over"
    /\ Len(Pipes) > 0
    /\ gameState.score >= 1
    /\ updateGame(gameState, frameCount) = {gameState}

\* the fields of state that restart resets, reset
ResetForRestart(state) ==
    [state EXCEPT !.score = 0, !.bird = createBird, !.pipes = <<>>,
                  !.chaos = createInitialChaos, !.blackHole = createInitialBlackHole,
                  !.status = "ready"]

\* C10: Restart resets score, bird, pipes, hazard aggregate and special-event
\* state and keeps bestScore and the configuration; an impulse when the game
\* is over does the same and then starts the game (the bird jumps and the
\* hazards are enabled as configured).
C10_RestartResets ==
    [][/\ Restart => gameState' = ResetForRestart(gameState)
       /\ (Jump /\ gameState.status = "over") =>
              /\ gameState'.score = 0
              /\ gameState'.pipes = <<>>
              /\ gameState'.blackHole = createInitialBlackHole
              /\ gameState'.chaos = [createInitialChaos EXCEPT
                                        !.enabled = gameState.config.chaosEnabled]
              /\ gameState'.bird = jumpBird(createBird, gameState.config.jumpHeight,
                                            gameState.config.physicsType)
              /\ gameState'.bestScore = gameState.bestScore
              /\ gameState'.config = gameState.config]_vars

\* C10 witness: the game has been reset after frames were played, with a
\* best score made in this game and a configuration that is not the default
C10_Witness ==
    /\ gameState.status = "ready"
    /\ frameCount > 0
    /\ gameState.bestScore > bestAtStart
    /\ gameState.config # DefaultConfig
    /\ gameState.score = 0 /\ Pipes = <<>>

\* C11 (as claimed): in every state the hazard aggregate's enabled flag
\* equals the configuration's chaosEnabled.
C11_EnabledInSync ==
    Chaos.enabled = gameState.config.chaosEnabled

\* C12 (as claimed): when a game has ended, the persisted best score is not
\* below the score of that game (a score above the stored best was written).
C12_RecordPersisted ==
    gameState.status = "over" => gameState.score <= loadBestScore(storage)

\* the bird is in contact with the pipe: it hits its body or is in its
\* electrified gap
Touches(bird, pipe) ==
    checkPipeCollision(bird, pipe) \/ checkElectricPipeCollision(bird, <<pipe>>)

\* the step ends the game (only a tick does)
EndsGame == gameState.status = "playing" /\ gameState'.status = "over"

IsRevealedGhost(pipe) == pipe.isGhost /\ pipe.isRevealed
IsUnrevealedGhost(pipe) == pipe.isGhost /\ ~pipe.isRevealed

\* C13 (as claimed): a tick ends the game only if the bird is out of bounds,
\* is hit by a beam or projectile, or touches a pipe that is not a revealed
\* ghost; touching revealed ghosts alone never ends it.
C13_RevealedGhostHarmless ==
    [][EndsGame =>
          \/ isBirdOutOfBounds(Bird')
          \/ checkChaosCollision(Bird', Chaos')
          \/ \E i \in PipeIndexes(Pipes') :
                ~IsRevealedGhost(Pipes'[i]) /\ Touches(Bird', Pipes'[i])]_vars

\* C14 (as claimed): a tick ends the game only if the bird is out of bounds,
\* is hit by a beam or projectile, or touches a pipe that is not an
\* unrevealed ghost; overlapping unrevealed ghosts alone never ends it.
C14_UnrevealedGhostHarmless ==
    [][EndsGame =>
          \/ isBirdOutOfBounds(Bird')
          \/ checkChaosCollision(Bird', Chaos')
          \/ \E i \in PipeIndexes(Pipes') :
                ~IsUnrevealedGhost(Pipes'[i]) /\ Touches(Bird', Pipes'[i])]_vars

\* C15: across every step, a pipe that stays in the list keeps its ghost
\* bit: whether the bit is assigned (ghostSet) and its value (isGhost) are
\* the same before and after, so a pipe created without one never acquires
\* one, and isRevealed never goes from true back to false.
C15_GhostBitFixed ==
    [][\A i \in PipeIndexes(Pipes), j \in PipeIndexes(Pipes') :
          SamePipe(Pipes[i], Pipes'[j]) =>
              /\ Pipes'[j].ghostSet = Pipes[i].ghostSet
              /\ Pipes'[j].isGhost = Pipes[i].isGhost
              /\ Pipes[i].isRevealed => Pipes'[j].isRevealed]_vars

\* a ghost pipe that was created unrevealed has been revealed and is still
\* a ghost
C15_Witness ==
    \E i \in PipeIndexes(Pipes) :
        Pipes[i].ghostSet /\ Pipes[i].isGhost /\ Pipes[i].isRevealed

\* indexes of the pipes after the step that were not in the list before it
NewPipes ==
    {j \in PipeIndexes(Pipes') :
        ~\E i \in PipeIndexes(Pipes) : SamePipe(Pipes[i], Pipes'[j])}

\* C18 (as claimed): an electric pipe is inactive in the first state in
\* which it is in the pipe list, the result of the tick that created it.
C18_StartsInactive ==
    [][\A j \in NewPipes : Pipes'[j].isElectric => ~Pipes'[j].electricActive]_vars

Flips == Chaos.gravityFlips
ActiveFlips == {i \in 1..Len(Flips) : Flips[i].isActive}

\* C16 (as claimed): in every state, also of games whose hazard aggregate
\* was given gravity-inversion zones from outside, gravityMultiplier is -1
\* iff exactly one zone is active and +1 iff none is, and at most one zone
\* is active.
C16_MultiplierMatchesZones ==
    /\ Chaos.gravityMultiplier = -1 <=> Cardinality(ActiveFlips) = 1
    /\ Chaos.gravityMultiplier = 1 <=> ActiveFlips = {}
    /\ Cardinality(ActiveFlips) <= 1

\* a tick of normal gameplay: the step is a frame and no black hole runs
PlayTick == frameCount' = frameCount + 1 /\ ~BlackHole.active

\* the duty cycle: active for cycle times 0..49 of every 170
OnDutyCycle(pipe) ==
    pipe.electricActive <=> (pipe.electricCycleTime % 170) < 50

\* each electric pipe that the step keeps has its cycle time advanced by 1
CycleAdvances ==
    \A i \in PipeIndexes(Pipes), j \in PipeIndexes(Pipes') :
        (Pipes[i].isElectric /\ SamePipe(Pipes[i], Pipes'[j])) =>
            Pipes'[j].electricCycleTime = Pipes[i].electricCycleTime + 1

\* C17 (as claimed): every electric pipe of every state is active iff its
\* cycle time mod 170 is below 50, and every tick of gameplay advances the
\* cycle time of every electric pipe by 1.
C17_DutyCycleEveryTick ==
    [][/\ \A j \in PipeIndexes(Pipes') : Pipes'[j].isElectric => OnDutyCycle(Pipes'[j])
       /\ PlayTick => CycleAdvances]_vars

\* C17 (amended): every electric pipe of every state is active iff its
\* cycle time mod 170 is below 50, and every tick of gameplay made while
\* the hazards and the electric-pillars kind are switched on advances the
\* cycle time of every electric pipe by 1; other steps leave it unchanged.
C17_DutyCycle ==
    [][/\ \A j \in PipeIndexes(Pipes') : Pipes'[j].isElectric => OnDutyCycle(Pipes'[j])
       /\ IF /\ PlayTick
             /\ gameState.config.chaosEnabled
             /\ gameState.config.chaosHazards.electricPillars
          THEN CycleAdvances
          ELSE \A i \in PipeIndexes(Pipes), j \in PipeIndexes(Pipes') :
                  (Pipes[i].isElectric /\ SamePipe(Pipes[i], Pipes'[j])) =>
                      Pipes'[j].electricCycleTime = Pipes[i].electricCycleTime]_vars

\* an electric pipe in its second cycle is active again
C17_Witness ==
    \E i \in PipeIndexes(Pipes) :
        /\ Pipes[i].isElectric /\ Pipes[i].electricActive
        /\ Pipes[i].electricCycleTime > 170

Rays == Chaos.gammaRays

\* C19: in every state there is at most one beam.
C19_OneBeam == Len(Rays) <= 1

\* a spawn of a beam was drawn while the beam of an earlier spawn existed
\* (the spawn time is later than the beam's creation) and there is one beam
C19_Witness ==
    /\ Len(Rays) = 1
    /\ Rays[1].state = "warning"
    /\ Chaos.lastSpawnTime + Rays[1].progress > frameCount

\* a tick of normal gameplay in which the hazards are updated
BeamTick ==
    PlayTick /\ gameState.config.chaosEnabled /\ Chaos.enabled

\* C20 (as claimed): a beam is updated by every hazard tick; it stays in
\* its state with its progress advanced until it has spent 240 ticks in
\* warning or 30 ticks in active, then moves to the next state of
\* warning, active, fading with its progress reset to 0; a fading beam
\* is advanced or removed, and nothing else happens to a beam.
C20_BeamLifecycle ==
    [][(BeamTick /\ Len(Rays) = 1) =>
          LET ray == Rays[1]
              advanced == Rays' = <<[ray EXCEPT !.progress = @ + 1]>>
          IN  CASE ray.state = "warning" ->
                     IF ray.progress + 1 = ray.warningTime
                     THEN Rays' = <<[ray EXCEPT !.state = "active", !.progress = 0]>>
                     ELSE advanced
                [] ray.state = "active" ->
                     IF ray.progress + 1 = ray.activeTime
                     THEN Rays' = <<[ray EXCEPT !.state = "fading", !.progress = 0]>>
                     ELSE advanced
                [] OTHER ->
                     \/ advanced
                     \/ \A k \in 1..Len(Rays') :
                           Rays'[k].state = "warning" /\ Rays'[k].progress = 0]_vars

\* the band of the beam and the box of the bird overlap vertically
BeamOverlaps(bird, ray) ==
    bird.y + bird.height > ray.y /\ bird.y < ray.y + ray.height

\* the bird is out of bounds, touches a pipe or is hit by a particle
DiesWithoutBeam(bird, pipes, chaos) ==
    \/ isBirdOutOfBounds(bird)
    \/ \E i \in PipeIndexes(pipes) : Touches(bird, pipes[i])
    \/ checkChaosCollision(bird, [chaos EXCEPT !.gammaRays = <<>>])

\* C21: a step that ends the game with the bird in bounds, clear of every
\* pipe and of every particle leaves a beam that is active and whose band
\* overlaps the bird: a beam in warning or fading ends no game.
C21_OnlyActiveBeamKills ==
    [][(EndsGame /\ ~DiesWithoutBeam(Bird', Pipes', Chaos')) =>
          \E k \in 1..Len(Rays') :
              Rays'[k].state = "active" /\ BeamOverlaps(Bird', Rays'[k])]_vars

\* a game ended by an active beam alone
C21_Witness ==
    /\ gameState.status = "over"
    /\ ~DiesWithoutBeam(Bird, Pipes, Chaos)
    /\ \E k \in 1..Len(Rays) : Rays[k].state = "active" /\ BeamOverlaps(Bird, Rays[k])

\* the step adds a hazard entity or records a spawn
SpawnEvent ==
    \/ Len(Chaos'.gammaRays) > Len(Rays)
    \/ Len(Chaos'.vortexes) > Len(Chaos.vortexes)
    \/ Len(Chaos'.particles) > Len(Chaos.particles)
    \/ Chaos'.lastSpawnTime \notin {0, Chaos.lastSpawnTime}

\* C22: every step that spawns a hazard is a tick that records its frame
\* as the spawn time, at least 400 frames after the spawn time recorded
\* before it, which is the previous spawn of the game or 0 at its start;
\* no other step changes the recorded spawn time except by resetting it
\* to 0.
C22_SpawnInterval ==
    [][SpawnEvent =>
          /\ frameCount' = frameCount + 1
          /\ Chaos'.lastSpawnTime = frameCount'
          /\ frameCount' - Chaos.lastSpawnTime >= SPAWN_INTERVAL]_vars

\* the second spawn of a game has just created a beam
C22_Witness ==
    /\ Chaos.lastSpawnTime > 2 * SPAWN_INTERVAL
    /\ Chaos.lastSpawnTime = frameCount
    /\ Len(Rays) = 1 /\ Rays[1].state = "warning" /\ Rays[1].progress = 0

\* indexes of the entities of list after that are in their spawn state
\* and were not in the list before the step
Spawned(before, after, fresh(_)) ==
    {k \in 1..Len(after) :
        fresh(after[k]) /\ \A i \in 1..Len(before) : before[i] # after[k]}

FreshBeam(ray) == ray.state = "warning" /\ ray.progress = 0
FreshVortex(vortex) == vortex.x = Fx(CANVAS_width + 50)
FreshParticle(particle) == particle.x \in {-Fx(20), Fx(CANVAS_width + 20)}

\* C23: a step that creates hazard entities is made with the hazards
\* switched on and creates entities of one kind only, whose toggle is on:
\* one beam, one swirl field or exactly two particles.
C23_SpawnsEnabledKind ==
    [][LET beams == Cardinality(Spawned(Rays, Chaos'.gammaRays, FreshBeam))
           swirls == Cardinality(Spawned(Chaos.vortexes, Chaos'.vortexes, FreshVortex))
           shots == Cardinality(Spawned(Chaos.particles, Chaos'.particles, FreshParticle))
           hazards == gameState.config.chaosHazards
       IN  beams + swirls + shots > 0 =>
             /\ gameState.config.chaosEnabled
             /\ \/ beams = 1 /\ swirls = 0 /\ shots = 0 /\ hazards.gammaRays
                \/ beams = 0 /\ swirls = 1 /\ shots = 0 /\ hazards.vortexes
                \/ beams = 0 /\ swirls = 0 /\ shots = 2 /\ hazards.particles]_vars

\* with the particles switched off the spawner has just created a swirl
\* field
C23_Witness ==
    /\ ~gameState.config.chaosHazards.particles
    /\ Chaos.lastSpawnTime = frameCount
    /\ Len(Chaos.vortexes) = 1 /\ FreshVortex(Chaos.vortexes[1])

\* no frame has been played since the session started
SessionStart == gameState.status = "ready" /\ frameCount = 0

\* C24 (as claimed): at the start of a session whose stored best score is
\* absent or corrupt the best score is 0, and the best score is a number
\* in every state.
C24_LoadsZero ==
    /\ (SessionStart /\ storage.kind # "number") => gameState.bestScore = 0
    /\ gameState.bestScore # NaN

\* the bottom edge of the bird has reached the ground line, or its top
\* edge is above the top of the field
ReachedGroundOrTop(bird) ==
    bird.y + bird.height >= Fx(CANVAS_height - 80) \/ bird.y < 0

\* the bottom edge of the bird is below the ground line, or its top edge is
\* above the top of the field
BelowGroundOrAboveTop(bird) ==
    bird.y + bird.height > Fx(CANVAS_height - 80) \/ bird.y < 0

\* C25 (as claimed): after every step isBirdOutOfBounds is true of the bird
\* iff its bottom edge has reached the ground line or its top edge is above
\* the top of the field, and a tick of gameplay that leaves the bird so
\* without triggering the record-break event ends the game.
C25_OutOfBoundsOnReach ==
    [][/\ isBirdOutOfBounds(Bird') <=> ReachedGroundOrTop(Bird')
       /\ (PlayTick /\ ReachedGroundOrTop(Bird') /\ ~BlackHole'.active) =>
              gameState'.status = "over"]_vars

\* C25 (amended): after every step isBirdOutOfBounds is true of the bird
\* iff its bottom edge is below the ground line (y + height > field height
\* - 80; a bird standing exactly on the line is in bounds) or its top edge
\* is above the top of the field, and a tick of gameplay that leaves the
\* bird so without triggering the record-break event ends the game.
C25_OutOfBoundsEndsGame ==
    [][/\ isBirdOutOfBounds(Bird') <=> BelowGroundOrAboveTop(Bird')
       /\ (PlayTick /\ BelowGroundOrAboveTop(Bird') /\ ~BlackHole'.active) =>
              gameState'.status = "over"]_vars

\* a game ended by the ground alone, one tick after the bird stood exactly
\* on the ground line
C25_Witness ==
    /\ gameState.status = "over"
    /\ Bird.y + Bird.height > Fx(CANVAS_height - 80)
    /\ Bird.y + Bird.height - Bird.velocity = Fx(CANVAS_height - 80)
    /\ ~\E i \in PipeIndexes(Pipes) : Touches(Bird, Pipes[i])

\* the step is an impulse command that is applied (not one ignored while
\* the black hole is active)
ImpulseApplied ==
    /\ ~BlackHole.active
    /\ frameCount' # frameCount + 1
    /\ gameState' = handleJump(gameState)

\* C26: jumpTime is 0 after every impulse that is applied, one more after
\* every tick of gameplay, 0 after a restart (when no tick is made before
\* the next impulse) and unchanged by every other step, the ticks of the
\* black hole among them: it counts the ticks of gameplay since the last
\* applied impulse.
C26_JumpTimeCounts ==
    [][Bird'.jumpTime =
          IF PlayTick THEN Bird.jumpTime + 1
          ELSE IF ImpulseApplied \/ gameState' = restartGame(gameState) THEN 0
          ELSE Bird.jumpTime]_vars

\* two ticks after the impulse that resumed the game after the black hole
C26_Witness ==
    /\ gameState.status = "playing"
    /\ BlackHole.hasTriggeredThisGame /\ ~BlackHole.active /\ ~BlackHole.waitingToResume
    /\ Bird.jumpTime = 2

\* v - w for doubles v >= w, exactly (the difference of two doubles below
\* 1024 has at most 52 binary places)
Minus(v, w) ==
    LET d4 == v.frac[4] - w.frac[4]
        b4 == IF d4 < 0 THEN 1 ELSE 0
        d3 == v.frac[3] - w.frac[3] - b4
        b3 == IF d3 < 0 THEN 1 ELSE 0
        d2 == v.frac[2] - w.frac[2] - b3
        b2 == IF d2 < 0 THEN 1 ELSE 0
        d1 == v.frac[1] - w.frac[1] - b2
        b1 == IF d1 < 0 THEN 1 ELSE 0
    IN  [whole |-> v.whole - w.whole - b1,
         frac |-> <<d1 + 8192 * b1, d2 + 8192 * b2, d3 + 8192 * b3, d4 + 8192 * b4>>]

\* the whole number n as a double
Whole(n) == [whole |-> n, frac |-> <<0, 0, 0, 0>>]

\* v <= w for doubles
AtMost(v, w) ==
    \/ v.whole < w.whole
    \/ /\ v.whole = w.whole
       /\ \E k \in 1..5 : /\ \A i \in 1..(k - 1) : v.frac[i] = w.frac[i]
                          /\ k = 5 \/ v.frac[k] < w.frac[k]

\* the configured gap size, a whole number
GapSize == gameState.config.pipeGap \div 100

\* the pipe keeps its gap and its width over the step
KeepsShape ==
    \A i \in PipeIndexes(Pipes), j \in PipeIndexes(Pipes') :
        Pipes'[j].x = Pipes[i].x - gameState.config.speed =>
            /\ Pipes'[j].topHeight = Pipes[i].topHeight
            /\ Pipes'[j].bottomY = Pipes[i].bottomY
            /\ Pipes'[j].width = Pipes[i].width

\* C27 (as claimed): every pipe created for a gap size of the slider has
\* bottomY - topHeight equal to the gap size, topHeight >= 80 and
\* bottomY <= 560, for the draws of RandomDoubles, and every step leaves
\* topHeight, bottomY and width of the pipes it keeps unchanged.
C27_ExactGap ==
    [][/\ \A j \in PipeIndexes(Pipes') :
             /\ Minus(Pipes'[j].bottomY, Pipes'[j].topHeight) = Whole(GapSize)
             /\ AtMost(Whole(80), Pipes'[j].topHeight)
             /\ AtMost(Pipes'[j].bottomY, Whole(560))
       /\ KeepsShape]_vars

\* 2^-45 as a double
RoundingOfSum == [whole |-> 0, frac |-> <<0, 0, 0, 128>>]

\* C27 (amended): bottomY is the double nearest to topHeight + gap size, so
\* bottomY - topHeight and the gap size differ by at most 2^-45 and not
\* always by 0; topHeight >= 80 and bottomY <= 560, and every step leaves
\* topHeight, bottomY and width of the pipes it keeps unchanged.
C27_NearestGap ==
    [][/\ \A j \in PipeIndexes(Pipes') :
             LET gap == Minus(Pipes'[j].bottomY, Pipes'[j].topHeight)
             IN  /\ \/ /\ AtMost(Whole(GapSize), gap)
                       /\ AtMost(Minus(gap, Whole(GapSize)), RoundingOfSum)
                    \/ /\ AtMost(gap, Whole(GapSize))
                       /\ AtMost(Minus(Whole(GapSize), gap), RoundingOfSum)
                 /\ AtMost(Whole(80), Pipes'[j].topHeight)
                 /\ AtMost(Pipes'[j].bottomY, Whole(560))
       /\ KeepsShape]_vars

\* a pipe whose sum was rounded has scrolled to the bird
C27_Witness ==
    \E i \in PipeIndexes(Pipes) :
        /\ Minus(Pipes[i].bottomY, Pipes[i].topHeight) # Whole(GapSize)
        /\ Pipes[i].passed

\* the pipes whose shifted trailing edge is still right of -50
Retained ==
    {i \in PipeIndexes(Pipes) :
        Pipes[i].x - gameState.config.speed + Pipes[i].width > -Fx(50)}

\* the place of a retained pipe among the retained pipes
Rank(i) == Cardinality({j \in Retained : j <= i})

\* C29: a step shifts every pipe left by exactly the speed, retains a pipe
\* iff its shifted trailing edge x + width is greater than -50, and keeps
\* the retained pipes in their order (a pipe spawned in the step follows
\* them).
C29_AdvanceRetains ==
    [][/\ Len(Pipes') \in {Cardinality(Retained), Cardinality(Retained) + 1}
       /\ \A i \in Retained :
             /\ Pipes'[Rank(i)].x = Pipes[i].x - gameState.config.speed
             /\ Pipes'[Rank(i)].topHeight = Pipes[i].topHeight
             /\ Pipes'[Rank(i)].bottomY = Pipes[i].bottomY
       /\ Len(Pipes') = Cardinality(Retained) + 1 =>
             Pipes'[Len(Pipes')].x = Fx(CANVAS_width + 50)]_vars

\* the pipe of the first frame has left with its trailing edge at -50, and
\* the pipe behind it has taken the first place
C29_Witness ==
    /\ Len(Pipes) >= 1
    /\ Pipes[1].x > Fx(CANVAS_width + 50) - gameState.config.speed * (frameCount - 1)
    /\ Pipes[1].x < Fx(CANVAS_width + 50)

\* the bird's x is changed by the step
MovesAcross == Bird'.x # Bird.x

\* C28: in every state the bird's x lies in [20, 150], and a step changes x
\* only in a tick of play with hazards on (the swirl-field force, clamped
\* to that band) or by putting the bird back at x = 80.
C28_BirdInBand ==
    /\ [](Bird.x >= Fx(20) /\ Bird.x <= Fx(150))
    /\ [][MovesAcross =>
            \/ PlayTick /\ gameState.config.chaosEnabled /\ gameState.status = "playing"
            \/ Bird'.x = Fx(BIRD_x)]_vars

\* the clamp has stopped the bird at the edge of the band
C28_Witness == Bird.x \in {Fx(20), Fx(150)}

\* the bird overlaps the pipe horizontally and its box lies inside the gap
InsideGap(bird, pipe) ==
    /\ bird.x + bird.width > pipe.x /\ bird.x < pipe.x + pipe.width
    /\ bird.y > pipe.topHeight /\ bird.y + bird.height < pipe.bottomY

\* the bird is out of bounds, hits the body of a pipe that is not a revealed
\* ghost, or is hit by a beam or a particle
DiesWithoutElectricity(bird, pipes, chaos) ==
    \/ isBirdOutOfBounds(bird)
    \/ \E i \in PipeIndexes(pipes) :
          ~IsRevealedGhost(pipes[i]) /\ checkPipeCollision(bird, pipes[i])
    \/ checkChaosCollision(bird, chaos)

\* the bird is inside the gap of an electric pipe whose electricity is on
Zapped(bird, pipes) ==
    \E i \in PipeIndexes(pipes) :
        pipes[i].isElectric /\ pipes[i].electricActive /\ InsideGap(bird, pipes[i])

\* C30: a step that ends the game for no other reason is taken with hazards
\* enabled and leaves the bird horizontally overlapping an electric pipe
\* whose electricity is on, its top edge below topHeight and its bottom edge
\* above bottomY; a tick that leaves the bird inside the gap of an electric
\* pipe whose electricity is off, with no other reason to end, does not end
\* the game.
C30_ElectricGap ==
    /\ [][(EndsGame /\ ~DiesWithoutElectricity(Bird', Pipes', Chaos')) =>
             gameState.config.chaosEnabled /\ Zapped(Bird', Pipes')]_vars
    /\ [][(/\ gameState.status = "playing"
           /\ ~DiesWithoutElectricity(Bird', Pipes', Chaos')
           /\ \E j \in PipeIndexes(Pipes') :
                 /\ Pipes'[j].isElectric /\ ~Pipes'[j].electricActive
                 /\ InsideGap(Bird', Pipes'[j]))
             => gameState'.status = "playing"]_vars

\* a game ended by the electricity of a gap alone
C30_Witness ==
    /\ gameState.status = "over"
    /\ ~DiesWithoutElectricity(Bird, Pipes, Chaos)
    /\ gameState.config.chaosEnabled
    /\ Zapped(Bird, Pipes)

\* C31: in every state in which the black hole is active, the impulse
\* command returns the state it is given, every field unchanged.
C31_ImpulseIgnored == BlackHole.active => handleJump(gameState) = gameState

\* the animation runs over a falling bird in a frame in which an impulse
\* reaches the frame loop
C31_Witness ==
    /\ BlackHole.active /\ BlackHole.progress >= 1
    /\ frameCount % InputPeriod = InputPhase
    /\ Bird.velocity # 0

\* the order of the phases of the animation
PhaseRank(phase) ==
    CASE phase = "pulling" -> 1
      [] phase = "stretching" -> 2
      [] OTHER -> 3

\* a tick taken while the black hole is active
EventTick == BlackHole.active /\ frameCount' = frameCount + 1

\* C32: once the black hole is active and the frame loop keeps running, the
\* state reaches waitingToResume = true unless the game is restarted; every
\* tick of the animation advances the progress by one step of 1/150, and the
\* tick taken at 149 steps completes it; the phase goes from pulling to
\* stretching to none and never backwards.
C32_EventCompletes ==
    /\ [](BlackHole.active =>
            <>(BlackHole.waitingToResume \/ gameState.status = "ready"))
    /\ [][EventTick =>
            \/ /\ BlackHole'.active
               /\ BlackHole'.progress = BlackHole.progress + 1
               /\ BlackHole'.progress < BLACK_HOLE_DURATION
            \/ /\ BlackHole.progress = BLACK_HOLE_DURATION - 1
               /\ ~BlackHole'.active /\ BlackHole'.waitingToResume]_vars
    /\ [][BlackHole.active =>
            PhaseRank(BlackHole'.phase) >= PhaseRank(BlackHole.phase)]_vars

\* the animation has run its 150 ticks and the game waits for the impulse
C32_Witness ==
    /\ BlackHole.waitingToResume /\ BlackHole.phase = "none"
    /\ frameCount >= LateStart + BLACK_HOLE_DURATION

\* C33: in every state active and waitingToResume are not both true; if
\* either is true then status is playing and hasTriggeredThisGame is true;
\* and if active is false then phase is none and progress is 0.
C33_EventFieldsConsistent ==
    /\ ~(BlackHole.active /\ BlackHole.waitingToResume)
    /\ (BlackHole.active \/ BlackHole.waitingToResume) =>
          (gameState.status = "playing" /\ BlackHole.hasTriggeredThisGame)
    /\ ~BlackHole.active => (BlackHole.phase = "none" /\ BlackHole.progress = 0)

\* the game waits for the impulse after an animation that went through
\* both phases, with the hazards switched off meanwhile
C33_Witness ==
    /\ BlackHole.waitingToResume /\ BlackHole.progress = 0
    /\ ~gameState.config.chaosEnabled

\* C34: in every state the score is at most the best score, and no step
\* (tick, impulse, restart, configuration update) lowers the best score.
C34_BestScoreBounds ==
    /\ [](gameState.score <= gameState.bestScore)
    /\ [][gameState'.bestScore >= gameState.bestScore]_vars

\* a running game has raised the best score it was started with by scoring
C34_Witness ==
    /\ gameState.status = "playing"
    /\ gameState.score >= 1
    /\ gameState.score = gameState.bestScore
    /\ gameState.bestScore > bestAtStart

\* after the scroll of this step no pipe is left, or the last one is left of
\* the spawn line (screen width minus the configured spacing)
PositionTrigger ==
    \/ Retained = {}
    \/ LET last == CHOOSE i \in Retained : \A j \in Retained : j <= i
       IN  Pipes[last].x - gameState.config.speed
              < Fx(CANVAS_width) - gameState.config.pipeSpacing

\* C35: every step appends at most one pipe, at the end of the list and at
\* x = screen width + 50, and a tick of play appends one exactly when the
\* scrolled list is empty or its last pipe is left of screen width minus
\* spacing; the new pipe is more than spacing + 50 right of its neighbour,
\* and in every state the pipes are in strictly increasing x order with
\* neighbours more than the smallest spacing + 50 apart.
C35_SpawnByPosition ==
    /\ [](\A i \in PipeIndexes(Pipes) :
             i > 1 => Pipes[i].x - Pipes[i - 1].x > Fx(PIPE_SPACING_MIN + 50))
    /\ [][/\ Cardinality(NewPipes) <= 1
          /\ \A j \in NewPipes :
                /\ j = Len(Pipes')
                /\ Pipes'[j].x = Fx(CANVAS_width + 50)
                /\ PositionTrigger
                /\ j > 1 => Pipes'[j].x - Pipes'[j - 1].x
                               > gameState.config.pipeSpacing + Fx(50)
          /\ (PlayTick /\ InPlay(gameState) /\ PositionTrigger) => NewPipes # {}]_vars

\* a pipe was spawned in the tick after the one that left the last pipe
\* exactly on the spawn line
C35_Witness ==
    /\ Len(Pipes) >= 2
    /\ Pipes[Len(Pipes)].x = Fx(CANVAS_width + 50)
    /\ Pipes[Len(Pipes) - 1].x
          = Fx(CANVAS_width) - gameState.config.pipeSpacing - gameState.config.speed

\* indexes of the pipes before the step that are not in the list after it
GonePipes ==
    {i \in PipeIndexes(Pipes) :
        ~\E j \in PipeIndexes(Pipes') : SamePipe(Pipes[i], Pipes'[j])}

\* C36: every pipe that a tick of play removes by the scroll cull was marked
\* passed (and so counted, once) before that tick, and a step that removes a
\* pipe not yet passed is the completion of the black-hole animation or the
\* start of a new game.
C36_CulledPipesCounted ==
    [][/\ (PlayTick /\ InPlay(gameState)) =>
              \A i \in PipeIndexes(Pipes) : i \notin Retained => Pipes[i].passed
       /\ (\E i \in GonePipes : ~Pipes[i].passed) =>
              \/ BlackHole.active /\ BlackHole'.waitingToResume
              \/ RestartStep]_vars

\* a counted pipe has been removed by the cull in a game without the event
C36_Witness ==
    /\ ~BlackHole.hasTriggeredThisGame
    /\ gameState.score > Cardinality({i \in PipeIndexes(Pipes) : Pipes[i].passed})

\* no hazard entity, normal gravity, and no pipe that is electric or
\* carries a ghost bit
HazardFree(state) ==
    /\ state.chaos.electricPillars = <<>> /\ state.chaos.gammaRays = <<>>
    /\ state.chaos.gravityFlips = <<>> /\ state.chaos.vortexes = <<>>
    /\ state.chaos.particles = <<>>
    /\ state.chaos.gravityMultiplier = 1
    /\ \A i \in PipeIndexes(state.pipes) :
          ~state.pipes[i].isElectric /\ ~state.pipes[i].ghostSet

\* the hazards are switched off in the configuration
HazardsOff(state) == ~state.config.chaosEnabled

\* C37: a game that starts with the hazards switched off starts free of
\* hazards; a step that begins and ends with the hazards switched off keeps
\* the game free of hazards; and a tick that ends such a game leaves the
\* bird in collision with a pipe or out of bounds.  So a game in which
\* chaosEnabled is false throughout has no hazard entity, gravityMultiplier
\* 1 and no electric or ghost pipe in any state, and ends only by pipe
\* collision or out of bounds.
C37_NoHazardsWhenOff ==
    [][/\ (gameState.status # "playing" /\ gameState'.status = "playing"
             /\ HazardsOff(gameState')) => HazardFree(gameState')
       /\ (HazardFree(gameState) /\ HazardsOff(gameState) /\ HazardsOff(gameState'))
             => HazardFree(gameState')
       /\ (HazardFree(gameState) /\ HazardsOff(gameState) /\ EndsGame) =>
             \/ checkAnyCollision(Bird', Pipes')
             \/ isBirdOutOfBounds(Bird')]_vars

\* a game without hazards has ended at a pipe after scoring
C37_Witness ==
    /\ gameState.status = "over"
    /\ HazardsOff(gameState) /\ HazardFree(gameState)
    /\ ~gameState.chaos.enabled
    /\ gameState.score >= 1
    /\ checkAnyCollision(Bird, Pipes)

\* C38: in every state reached from createInitialState by ticks, impulses,
\* restarts and configuration updates, the list of gravity-inversion zones
\* is empty and gravityMultiplier is +1, so the gravity applied to the bird
\* is the configured gravity.
C38_NoInversionZones ==
    /\ Chaos.gravityFlips = <<>>
    /\ Chaos.gravityMultiplier = 1
    /\ gameState.config.gravity * Chaos.gravityMultiplier = gameState.config.gravity

\* the shared spawner has placed hazards in a running game with hazards on
C38_Witness ==
    /\ gameState.status = "playing"
    /\ gameState.config.chaosEnabled /\ Chaos.enabled
    /\ Chaos.lastSpawnTime > 0
    /\ Chaos.vortexes # <<>>
    /\ Chaos.gravityFlips = <<>>

\* the bird's leading edge is within 50 units of the pipe's x
NearPipe(bird, pipe) == bird.x + bird.width > pipe.x - Fx(50)

\* the bird and the pipe overlap horizontally (the test of checkPipeCollision)
OverlapsPipe(bird, pipe) ==
    bird.x + bird.width > pipe.x /\ bird.x < pipe.x + pipe.width

\* a tick of gameplay taken with the hazards enabled
TickWithHazards == PlayTick /\ InPlay(gameState) /\ gameState.config.chaosEnabled

\* C39: in the result of every tick of gameplay taken with the hazards
\* enabled (the pipes and bird its collision tests see), every pipe with a
\* ghost bit that the bird's leading edge is within 50 units of is revealed,
\* in particular every one the bird overlaps horizontally; and a pipe that
\* was unrevealed before the tick is revealed by it exactly when the bird's
\* leading edge is within 50 units of it.
C39_RevealedBeforeOverlap ==
    [][TickWithHazards =>
          \A j \in PipeIndexes(Pipes') :
              Pipes'[j].ghostSet =>
                 /\ NearPipe(Bird', Pipes'[j]) => Pipes'[j].isRevealed
                 /\ OverlapsPipe(Bird', Pipes'[j]) => Pipes'[j].isRevealed
                 /\ \A i \in PipeIndexes(Pipes) :
                       (SamePipe(Pipes[i], Pipes'[j]) /\ ~Pipes[i].isRevealed) =>
                           (Pipes'[j].isRevealed <=> NearPipe(Bird', Pipes'[j]))]_vars

\* the bird is inside the column of a revealed ghost while another pipe
\* with a ghost bit is still far away and unrevealed
C39_Witness ==
    /\ gameState.status = "playing" /\ gameState.config.chaosEnabled
    /\ \E i \in PipeIndexes(Pipes) :
          /\ Pipes[i].ghostSet /\ Pipes[i].isGhost /\ Pipes[i].isRevealed
          /\ OverlapsPipe(Bird, Pipes[i])
    /\ \E i \in PipeIndexes(Pipes) :
          /\ Pipes[i].ghostSet /\ ~Pipes[i].isRevealed
          /\ ~NearPipe(Bird, Pipes[i])

====
